---- MODULE Spec2Model ----
(***************************************************************************)
(* Model of the CSV -> SKOS "restore" path of soil-vocabs                  *)
(* (restore_soilvoc_from_csv.py).                                          *)
(*                                                                         *)
(* Strings are sequences of characters, so that strip, casefold, split and *)
(* startswith are computed as the code computes them.  A few frequently    *)
(* used long strings are abbreviated to one symbol:                        *)
(*   "P"  stands for "http://w3id.org/glosis/model/procedure"              *)
(*   "o"  stands for "http://aims.fao.org/aos/agrovoc/c_7156"              *)
(* An RDF graph is a set of triples <<subject, predicate, object>>.        *)
(***************************************************************************)
EXTENDS Integers, Sequences, FiniteSets, TLC

(* ---------------------------------------------------------------------- *)
(* Bounds                                                                  *)
(* ---------------------------------------------------------------------- *)
MaxRows == 2

(* ---------------------------------------------------------------------- *)
(* Python string helpers                                                   *)
(* ---------------------------------------------------------------------- *)
Range(s) == {s[i] : i \in 1..Len(s)}

\* code points of the characters the model uses (Python compares str by code point)
Ord(ch) ==
    CASE ch = " " -> 32
      [] ch = "\"" -> 34
      [] ch = "#" -> 35
      [] ch = "/" -> 47
      [] ch = "1" -> 49
      [] ch = "2" -> 50
      [] ch = "3" -> 51
      [] ch = ":" -> 58
      [] ch = ";" -> 59
      [] ch = "@" -> 64
      [] ch = "P" -> 80
      [] ch = "S" -> 83
      [] ch = "a" -> 97
      [] ch = "b" -> 98
      [] ch = "c" -> 99
      [] ch = "d" -> 100
      [] ch = "e" -> 101
      [] ch = "h" -> 104
      [] ch = "i" -> 105
      [] ch = "l" -> 108
      [] ch = "n" -> 110
      [] ch = "o" -> 111
      [] ch = "p" -> 112
      [] ch = "r" -> 114
      [] ch = "s" -> 115
      [] ch = "t" -> 116
      [] ch = "w" -> 119
      [] OTHER -> 120

\* str.casefold / str.lower on one character
FoldChar(ch) ==
    CASE ch = "S" -> "s"
      [] ch = "P" -> "p"
      [] ch = "I" -> "i"
      [] ch = "D" -> "d"
      [] ch = "L" -> "l"
      [] ch = "M" -> "m"
      [] ch = "U" -> "u"
      [] ch = "R" -> "r"
      [] OTHER -> ch

casefold(s) == [i \in 1..Len(s) |-> FoldChar(s[i])]

lower(s) == [i \in 1..Len(s) |-> FoldChar(s[i])]

RECURSIVE lstrip(_)
lstrip(s) == IF s # <<>> /\ Head(s) = " " THEN lstrip(Tail(s)) ELSE s

RECURSIVE rstrip(_)
rstrip(s) ==
    IF s # <<>> /\ s[Len(s)] = " " THEN rstrip(SubSeq(s, 1, Len(s) - 1)) ELSE s

strip(s) == rstrip(lstrip(s))

\* value.split(";"): always at least one part
RECURSIVE split(_, _)
split(s, cur) ==
    IF s = <<>> THEN <<cur>>
    ELSE IF Head(s) = ";" THEN <<cur>> \o split(Tail(s), <<>>)
    ELSE split(Tail(s), Append(cur, Head(s)))

startswith(u, prefix) ==
    Len(u) >= Len(prefix) /\ SubSeq(u, 1, Len(prefix)) = prefix

\* a < b for Python str
RECURSIVE LexLess(_, _)
LexLess(a, b) ==
    IF b = <<>> THEN FALSE
    ELSE IF a = <<>> THEN TRUE
    ELSE IF Ord(Head(a)) # Ord(Head(b)) THEN Ord(Head(a)) < Ord(Head(b))
    ELSE LexLess(Tail(a), Tail(b))

\* variant: the first identifier in row order instead of the smallest
M_SortedFirst_FirstListed(uris) == uris[1]

\* sorted(uris)[0]
SortedFirst(uris) ==
    CHOOSE u \in Range(uris) : \A v \in Range(uris) : ~LexLess(v, u)

split_semicolon(value) ==
    LET v == strip(value)
        parts == split(v, <<>>)
        stripped == [i \in 1..Len(parts) |-> strip(parts[i])]
        NonEmpty(p) == p # <<>>
    IN  IF v = <<>> \/ lower(v) = <<"n", "a", "n">> THEN <<>>
        ELSE SelectSeq(stripped, NonEmpty)

(* ---------------------------------------------------------------------- *)
(* RDF terms and vocabulary                                                *)
(* ---------------------------------------------------------------------- *)
URIRef(u) == <<"uri", u>>

Literal(lex, lang) == <<"lit", lex, lang>>

RDF_type == "rdf:type"
SKOS_ConceptScheme == URIRef(<<"skos:ConceptScheme">>)
SKOS_Concept == URIRef(<<"skos:Concept">>)
SKOS_inScheme == "skos:inScheme"
SKOS_prefLabel == "skos:prefLabel"
SKOS_altLabel == "skos:altLabel"
SKOS_definition == "skos:definition"
SKOS_exactMatch == "skos:exactMatch"
SKOS_closeMatch == "skos:closeMatch"
SKOS_broader == "skos:broader"
SKOS_narrower == "skos:narrower"
SKOS_hasTopConcept == "skos:hasTopConcept"
SKOS_topConceptOf == "skos:topConceptOf"
SHE_isProcedureOf == "she:isProcedureOf"
SHE_hasProcedure == "she:hasProcedure"

\* --scheme default
scheme_uri == <<"https://soilwise-he.github.io/soil-health">>
SCHEME_URI == URIRef(scheme_uri)

PROCEDURE_EXACTMATCH_PREFIXES == {<<"P", "/">>, <<"P">>}

(* ---------------------------------------------------------------------- *)
(* Input rows, as read_rows returns them (every cell already stripped)     *)
(* ---------------------------------------------------------------------- *)
IdCells == {<<>>, <<"a">>, <<"b">>}
PrefCells == {<<>>, <<"S">>}
\* no label, separators only, one label, and a list with a label no row bears
BroaderCells == {<<>>, <<";">>, <<"s">>, <<"x", ";", " ", "S">>}
\* no value, and a list whose second value is the procedure namespace itself
ExactCells == {<<>>, <<"o", ";", "P">>}
\* exactMatch cells for the classifier: no value, another namespace, each of the two
\* prefixes, a value that only contains the prefix, and a mixed list
ClassifierExactCells ==
    {<<>>, <<"o">>, <<"P", "/", "d">>, <<"P", "d">>, <<"o", "P", "/">>,
     <<"o", ";", " ", "P", "/", "d">>}

Row(id, pref, alt, def, broader, exact, close) ==
    [ID |-> id, prefLabel |-> pref, altLabel |-> alt, definition |-> def,
     broader |-> broader, exactMatch |-> exact, closeMatch |-> close]

\* rows that exercise the hierarchy: identifier, label, broader labels, classification;
\* a row without identifier is skipped by every pass, so it comes blank or with a
\* label, a broader label and a procedure exactMatch
HierarchyRows ==
    {Row(id, pref, <<>>, <<>>, br, ex, <<>>) :
        id \in IdCells \ {<<>>}, pref \in PrefCells, br \in BroaderCells,
        ex \in ExactCells}
    \cup {Row(<<>>, <<>>, <<>>, <<>>, <<>>, <<>>, <<>>),
          Row(<<>>, <<"S">>, <<>>, <<>>, <<"s">>, <<"o", ";", "P">>, <<>>)}

\* rows that exercise the classifier
ClassifierRows ==
    {Row(id, <<>>, <<>>, <<>>, <<>>, ex, <<>>) :
        id \in {<<>>, <<"a">>}, ex \in ClassifierExactCells}

Permuted(rs, f) == [i \in 1..Len(rs) |-> rs[f[i]]]

SeqsUpTo(S, n) == UNION {[1..k -> S] : k \in 0..n}

\* the locals of build_graph_from_csv; g is the graph it returns ("restored" in main)
VARIABLES rows, pc, procedure_concept_uris, pref_to_uris, g, warnings

\* the state of main and of the verification functions:
\*   csv        the input file: whether it exists, and its header
\*   header     what canonicalize_fieldnames returned or raised
\*   mpc        the position in main
\*   args       the parsed command line
\*   out_file   the output file: <<>> while unwritten, <<graph>> once written
\*   reference  the reference file: whether it exists, and the graph it holds
\*   g_existing, g_existing_cmp, restored_cmp   the graphs of the comparison
\*   report     what the verification printed
VARIABLES csv, header, mpc, args, out_file, reference, g_existing, g_existing_cmp,
          restored_cmp, report

buildvars == <<rows, pc, procedure_concept_uris, pref_to_uris, g, warnings>>

mainvars == <<csv, header, mpc, args, out_file, reference, g_existing, g_existing_cmp,
              restored_cmp, report>>

\* the state of the other programs of the repository:
\*   hpc, call_stack     generate_soilvoc_html: position, and the calls of
\*                       get_concept_info in progress with the calls each has still to make
\*   lpc, local_graph, thesaurus   interlink_skos: position, the local graph, and the
\*                       thesaurus file (its name, whether it exists, its rows)
\*   uk_us               the spelling table interlink_skos imports
\*   gpc, df, term_to_fragment_map, glossary_graph   glossary_to_skos: position, the
\*                       rows read, the term map of the first pass, the graph built
VARIABLES hpc, call_stack, lpc, local_graph, thesaurus, uk_us, gpc, df, term_to_fragment_map,
          glossary_graph

htmlvars == <<hpc, call_stack>>

linkvars == <<lpc, local_graph, thesaurus, uk_us>>

glossaryvars == <<gpc, df, term_to_fragment_map, glossary_graph>>

toolvars == <<htmlvars, linkvars, glossaryvars>>

vars == <<buildvars, mainvars, toolvars>>

HtmlNotCalled == hpc = "notcalled" /\ call_stack = <<>>

LinkNotCalled ==
    /\ lpc = "notcalled"
    /\ local_graph = {}
    /\ thesaurus = [path |-> <<>>, exists |-> FALSE, rows |-> <<>>]
    /\ uk_us = <<>>

GlossaryNotCalled ==
    /\ gpc = "notcalled"
    /\ df = [exists |-> FALSE, rows |-> <<>>]
    /\ term_to_fragment_map = <<>>
    /\ glossary_graph = {}

ToolsNotCalled == HtmlNotCalled /\ LinkNotCalled /\ GlossaryNotCalled

(* ---------------------------------------------------------------------- *)
(* build_graph_from_csv, pass by pass                                      *)
(* ---------------------------------------------------------------------- *)

\* rows the loops do not skip: "if not concept_uri: continue"
ConceptRows(rs) == SelectSeq(rs, LAMBDA r : strip(r.ID) # <<>>)

IsProcedureRow(row) ==
    \E u \in Range(split_semicolon(row.exactMatch)) :
        \E p \in PROCEDURE_EXACTMATCH_PREFIXES : startswith(u, p)

\* variant: only the first exactMatch value of a row is tested
M_ProcedureConceptUris_FirstValueOnly(rs) ==
    {strip(rs[i].ID) : i \in {j \in 1..Len(rs) :
        /\ strip(rs[j].ID) # <<>>
        /\ split_semicolon(rs[j].exactMatch) # <<>>
        /\ \E p \in PROCEDURE_EXACTMATCH_PREFIXES :
              startswith(split_semicolon(rs[j].exactMatch)[1], p)}}


ProcedureConceptUris(rs) ==
    {strip(rs[i].ID) : i \in {j \in 1..Len(rs) :
        strip(rs[j].ID) # <<>> /\ IsProcedureRow(rs[j])}}

\* variant: rows without an identifier are indexed too
M_IndexedRows_WithEmptyIds(rs) == SelectSeq(rs, LAMBDA r : strip(r.prefLabel) # <<>>)

\* pref_to_uris: casefolded prefLabel -> list of the ids of the rows bearing it
IndexedRows(rs) ==
    SelectSeq(rs, LAMBDA r : strip(r.ID) # <<>> /\ strip(r.prefLabel) # <<>>)

PrefToUris(rs) ==
    LET ix == IndexedRows(rs)
        keys == {casefold(strip(ix[i].prefLabel)) : i \in 1..Len(ix)}
    IN  [k \in keys |->
            LET hits == SelectSeq(ix, LAMBDA r : casefold(strip(r.prefLabel)) = k)
            IN  [i \in 1..Len(hits) |-> strip(hits[i].ID)]]

\* pref_to_uris.get(key, [])
IndexGet(index, key) == IF key \in DOMAIN index THEN index[key] ELSE <<>>

NoWarnings == [unresolved_broader_labels |-> <<>>, ambiguous_broader_labels |-> <<>>]

UnresolvedLine(pref_label) == <<"-", " ">> \o pref_label \o <<"\n">>

AmbiguousLine(pref_label, n) ==
    <<"-", " ">> \o pref_label
        \o <<" -> ", ToString(n), " URIs; using lexicographically smallest", "\n">>

\* variant: the label is looked up as written, without case folding
M_resolve_CaseSensitive(pref_label, index) ==
    LET uris == IndexGet(index, pref_label)
    IN  IF uris = <<>> THEN
            [found |-> FALSE, uri |-> <<>>,
             unresolved |-> <<UnresolvedLine(pref_label)>>, ambiguous |-> <<>>]
        ELSE IF Len(uris) > 1 THEN
            [found |-> TRUE, uri |-> SortedFirst(uris),
             unresolved |-> <<>>,
             ambiguous |-> <<AmbiguousLine(pref_label, Len(uris))>>]
        ELSE
            [found |-> TRUE, uri |-> uris[1], unresolved |-> <<>>, ambiguous |-> <<>>]

\* variant: a label no row bears is taken to be an identifier, without a warning
M_resolve_FallBackToIdentifier(pref_label, index) ==
    LET uris == IndexGet(index, casefold(pref_label))
    IN  IF uris = <<>> THEN
            [found |-> TRUE, uri |-> pref_label, unresolved |-> <<>>, ambiguous |-> <<>>]
        ELSE IF Len(uris) > 1 THEN
            [found |-> TRUE, uri |-> SortedFirst(uris),
             unresolved |-> <<>>,
             ambiguous |-> <<AmbiguousLine(pref_label, Len(uris))>>]
        ELSE
            [found |-> TRUE, uri |-> uris[1], unresolved |-> <<>>, ambiguous |-> <<>>]

\* the closure resolve_pref_to_uri: its result and the warning lines it appends
resolve_pref_to_uri(pref_label, index) ==
    LET key == casefold(pref_label)
        uris == IndexGet(index, key)
    IN  IF uris = <<>> THEN
            [found |-> FALSE, uri |-> <<>>,
             unresolved |-> <<UnresolvedLine(pref_label)>>, ambiguous |-> <<>>]
        ELSE IF Len(uris) > 1 THEN
            [found |-> TRUE, uri |-> SortedFirst(uris),
             unresolved |-> <<>>,
             ambiguous |-> <<AmbiguousLine(pref_label, Len(uris))>>]
        ELSE
            [found |-> TRUE, uri |-> uris[1], unresolved |-> <<>>, ambiguous |-> <<>>]

\* variant: every definition is tagged en
M_ConceptTriplesOfRow_DefinitionAlwaysEn(row, procs) ==
    LET concept_uri == strip(row.ID)
        concept == URIRef(concept_uri)
        is_procedure_concept == concept_uri \in procs
        pref == strip(row.prefLabel)
        definition == strip(row.definition)
    IN  {<<concept, RDF_type, SKOS_Concept>>, <<concept, SKOS_inScheme, SCHEME_URI>>}
        \cup (IF pref # <<>> THEN {<<concept, SKOS_prefLabel, Literal(pref, "en")>>}
              ELSE {})
        \cup {<<concept, SKOS_altLabel, Literal(alt, "en")>> :
                alt \in Range(split_semicolon(row.altLabel))}
        \cup (IF definition = <<>> THEN {}
              ELSE {<<concept, SKOS_definition, Literal(definition, "en")>>})
        \cup {<<concept, SKOS_exactMatch, URIRef(u)>> :
                u \in Range(split_semicolon(row.exactMatch))}
        \cup {<<concept, SKOS_closeMatch, URIRef(u)>> :
                u \in Range(split_semicolon(row.closeMatch))}

ConceptTriplesOfRow(row, procs) ==
    LET concept_uri == strip(row.ID)
        concept == URIRef(concept_uri)
        is_procedure_concept == concept_uri \in procs
        pref == strip(row.prefLabel)
        definition == strip(row.definition)
    IN  {<<concept, RDF_type, SKOS_Concept>>, <<concept, SKOS_inScheme, SCHEME_URI>>}
        \cup (IF pref # <<>> THEN {<<concept, SKOS_prefLabel, Literal(pref, "en")>>}
              ELSE {})
        \cup {<<concept, SKOS_altLabel, Literal(alt, "en")>> :
                alt \in Range(split_semicolon(row.altLabel))}
        \cup (IF definition = <<>> THEN {}
              ELSE IF is_procedure_concept
                   THEN {<<concept, SKOS_definition, Literal(definition, "")>>}
                   ELSE {<<concept, SKOS_definition, Literal(definition, "en")>>})
        \cup {<<concept, SKOS_exactMatch, URIRef(u)>> :
                u \in Range(split_semicolon(row.exactMatch))}
        \cup {<<concept, SKOS_closeMatch, URIRef(u)>> :
                u \in Range(split_semicolon(row.closeMatch))}

ConceptTriples(rs, procs) ==
    LET cr == ConceptRows(rs)
    IN  UNION {ConceptTriplesOfRow(cr[i], procs) : i \in 1..Len(cr)}

\* variant: every resolved reference becomes an ordinary broader edge
M_EdgeTriples_AlwaysBroader(concept_uri, broader_uri, procs) ==
    {<<URIRef(concept_uri), SKOS_broader, URIRef(broader_uri)>>}

\* variant: every reference of a procedure becomes an ownership pair, whatever the parent
M_EdgeTriples_ProcedureAlwaysOwned(concept_uri, broader_uri, procs) ==
    IF concept_uri \in procs
    THEN {<<URIRef(concept_uri), SHE_isProcedureOf, URIRef(broader_uri)>>,
          <<URIRef(broader_uri), SHE_hasProcedure, URIRef(concept_uri)>>}
    ELSE {<<URIRef(concept_uri), SKOS_broader, URIRef(broader_uri)>>}

\* the edge(s) added for one resolved broader reference
EdgeTriples(concept_uri, broader_uri, procs) ==
    LET concept == URIRef(concept_uri)
        broader_concept == URIRef(broader_uri)
    IN  IF concept_uri \in procs THEN
            IF broader_uri \in procs
            THEN {<<concept, SKOS_broader, broader_concept>>}
            ELSE {<<concept, SHE_isProcedureOf, broader_concept>>,
                  <<broader_concept, SHE_hasProcedure, concept>>}
        ELSE {<<concept, SKOS_broader, broader_concept>>}

\* the broader references in the order the loop visits them
RECURSIVE BroaderRefs(_)
BroaderRefs(rs) ==
    IF rs = <<>> THEN <<>>
    ELSE LET row == Head(rs)
             labels == split_semicolon(row.broader)
         IN  (IF strip(row.ID) = <<>> THEN <<>>
              ELSE [i \in 1..Len(labels) |->
                       [concept_uri |-> strip(row.ID), label |-> labels[i]]])
             \o BroaderRefs(Tail(rs))

RECURSIVE BroaderLoop(_, _, _, _, _)
BroaderLoop(refs, procs, index, gacc, wacc) ==
    IF refs = <<>> THEN [g |-> gacc, warnings |-> wacc]
    ELSE LET ref == Head(refs)
             res == resolve_pref_to_uri(ref.label, index)
             w2 == [unresolved_broader_labels |->
                        wacc.unresolved_broader_labels \o res.unresolved,
                    ambiguous_broader_labels |->
                        wacc.ambiguous_broader_labels \o res.ambiguous]
             g2 == IF res.found /\ res.uri # <<>>
                   THEN gacc \cup EdgeTriples(ref.concept_uri, res.uri, procs)
                   ELSE gacc
         IN  BroaderLoop(Tail(refs), procs, index, g2, w2)

\* variant: the inverse edge keeps the direction of the broader edge
M_NarrowerTriples_SameDirection(graph) ==
    {<<t[1], SKOS_narrower, t[3]>> : t \in {x \in graph : x[2] = SKOS_broader}}


NarrowerTriples(graph) ==
    {<<t[3], SKOS_narrower, t[1]>> : t \in {x \in graph : x[2] = SKOS_broader}}

\* variant: procedures are not excluded
M_TopConceptUris_WithProcedures(rs, procs) ==
    {strip(rs[i].ID) : i \in {j \in 1..Len(rs) :
        strip(rs[j].ID) # <<>> /\ strip(rs[j].broader) = <<>>}}


TopConceptUris(rs, procs) ==
    {strip(rs[i].ID) : i \in {j \in 1..Len(rs) :
        /\ strip(rs[j].ID) # <<>>
        /\ strip(rs[j].ID) \notin procs
        /\ strip(rs[j].broader) = <<>>}}

\* variant: only the scheme -> concept direction is stated
M_TopConceptTriples_OneDirection(tops) ==
    {<<SCHEME_URI, SKOS_hasTopConcept, URIRef(tc)>> : tc \in tops}


TopConceptTriples(tops) ==
    UNION {{<<SCHEME_URI, SKOS_hasTopConcept, URIRef(tc)>>,
            <<URIRef(tc), SKOS_topConceptOf, SCHEME_URI>>} : tc \in tops}

(* ---------------------------------------------------------------------- *)
(* The passes as steps                                                     *)
(* ---------------------------------------------------------------------- *)
\* the canonical header line
CanonicalHeader ==
    <<<<"I", "D">>, <<"pref", "L", "abel">>, <<"alt", "L", "abel">>, <<"d", "efinition">>,
      <<"broader">>, <<"exact", "M", "atch">>, <<"close", "M", "atch">>>>

NoReport ==
    [same_raw |-> FALSE, same_cmp |-> FALSE, existing_top |-> {}, restored_top |-> {},
     missing |-> <<>>, extra |-> <<>>, literal_diffs |-> <<>>, printed |-> FALSE]

DefaultArgs ==
    [include_related |-> FALSE, include_topconceptof |-> FALSE,
     include_equivalentto |-> FALSE, literal_diff_limit |-> 10]

\* main has called build_graph_from_csv, read_rows has returned the rows
InsideBuild ==
    /\ csv = [exists |-> TRUE, fieldnames |-> CanonicalHeader, records |-> rows]
    /\ header = <<>>
    /\ mpc = "build"
    /\ args = DefaultArgs
    /\ out_file = <<>>
    /\ reference = [exists |-> FALSE, graph |-> {}]
    /\ g_existing = {}
    /\ g_existing_cmp = {}
    /\ restored_cmp = {}
    /\ report = NoReport
    /\ ToolsNotCalled

StartOfPasses ==
    /\ pc = "classify"
    /\ procedure_concept_uris = {}
    /\ pref_to_uris = <<>>
    /\ g = {}
    /\ warnings = NoWarnings

Init ==
    /\ rows \in SeqsUpTo(HierarchyRows, MaxRows) \cup SeqsUpTo(ClassifierRows, MaxRows)
    /\ StartOfPasses
    /\ InsideBuild

Classify ==
    /\ pc = "classify"
    /\ procedure_concept_uris' = ProcedureConceptUris(rows)
    /\ pc' = "index"
    /\ UNCHANGED <<rows, pref_to_uris, g, warnings>>
    /\ UNCHANGED mainvars
    /\ UNCHANGED toolvars

BuildIndex ==
    /\ pc = "index"
    /\ pref_to_uris' = PrefToUris(rows)
    /\ pc' = "concepts"
    /\ UNCHANGED <<rows, procedure_concept_uris, g, warnings>>
    /\ UNCHANGED mainvars
    /\ UNCHANGED toolvars

\* variant: the scheme is declared only together with the first concept
M_CreateConcepts_SchemeWithConcepts ==
    /\ pc = "concepts"
    /\ g' = IF ConceptRows(rows) = <<>> THEN {}
            ELSE {<<SCHEME_URI, RDF_type, SKOS_ConceptScheme>>}
                    \cup ConceptTriples(rows, procedure_concept_uris)
    /\ pc' = "broader"
    /\ UNCHANGED <<rows, procedure_concept_uris, pref_to_uris, warnings>>
    /\ UNCHANGED mainvars
    /\ UNCHANGED toolvars

CreateConcepts ==
    /\ pc = "concepts"
    /\ g' = {<<SCHEME_URI, RDF_type, SKOS_ConceptScheme>>}
                \cup ConceptTriples(rows, procedure_concept_uris)
    /\ pc' = "broader"
    /\ UNCHANGED <<rows, procedure_concept_uris, pref_to_uris, warnings>>
    /\ UNCHANGED mainvars
    /\ UNCHANGED toolvars

AddBroader ==
    /\ pc = "broader"
    /\ LET out == BroaderLoop(BroaderRefs(rows), procedure_concept_uris,
                              pref_to_uris, g, warnings)
       IN  /\ g' = out.g
           /\ warnings' = out.warnings
    /\ pc' = "narrower"
    /\ UNCHANGED <<rows, procedure_concept_uris, pref_to_uris>>
    /\ UNCHANGED mainvars
    /\ UNCHANGED toolvars

AddNarrower ==
    /\ pc = "narrower"
    /\ g' = g \cup NarrowerTriples(g)
    /\ pc' = "top"
    /\ UNCHANGED <<rows, procedure_concept_uris, pref_to_uris, warnings>>
    /\ UNCHANGED mainvars
    /\ UNCHANGED toolvars

AddTopConcepts ==
    /\ pc = "top"
    /\ g' = g \cup TopConceptTriples(TopConceptUris(rows, procedure_concept_uris))
    /\ pc' = "done"
    /\ UNCHANGED <<rows, procedure_concept_uris, pref_to_uris, warnings>>
    /\ UNCHANGED mainvars
    /\ UNCHANGED toolvars

Next ==
    \/ Classify
    \/ BuildIndex
    \/ CreateConcepts
    \/ AddBroader
    \/ AddNarrower
    \/ AddTopConcepts

Spec == Init /\ [][Next]_vars

(* ---------------------------------------------------------------------- *)
(* The round-trip scenario: a top row A, an ordinary row B and a procedure *)
(* row C that both name A as broader                                       *)
(* ---------------------------------------------------------------------- *)
ScenarioIds == {<<"a">>, <<"b">>, <<"d">>}

ScenarioInputs ==
    {<<Row(ida, prefa, <<>>, <<>>, <<>>, exa, <<>>),
       Row(idb, prefb, <<>>, <<>>, lb, <<>>, <<>>),
       Row(idc, prefc, <<>>, <<>>, lc, exc, <<>>)>> :
        ida \in ScenarioIds, idb \in ScenarioIds, idc \in ScenarioIds,
        prefa \in {<<"S">>}, exa \in {<<>>, <<"o">>},
        prefb \in {<<>>, <<"x">>}, lb \in {<<"S">>, <<"s">>},
        prefc \in {<<>>, <<"x">>}, lc \in {<<"S">>, <<"s">>},
        exc \in {<<"P", "/", "d">>, <<"o", ";", "P">>}}

InitScenario ==
    /\ rows \in {Permuted(in, f) : in \in ScenarioInputs, f \in Permutations(1..3)}
    /\ Cardinality({rows[i].ID : i \in 1..3}) = 3
    /\ StartOfPasses
    /\ InsideBuild

SpecScenario == InitScenario /\ [][Next]_vars

(* ---------------------------------------------------------------------- *)
(* Rows that carry labels and definitions, for the literals a row emits.   *)
(* ---------------------------------------------------------------------- *)
\* prefLabel, altLabel and definition cells of one row
LiteralCells ==
    {<<<<>>, <<>>, <<>>>>,
     <<<<"S">>, <<"s", ";", " ", "x">>, <<"d">>>>,
     <<<<>>, <<";">>, <<"d">>>>,
     <<<<"S">>, <<"x">>, <<>>>>,
     <<<<"x">>, <<>>, <<>>>>}

LiteralRows ==
    {Row(id, c[1], c[2], c[3], <<>>, ex, <<>>) :
        id \in {<<"a">>, <<"b">>}, c \in LiteralCells, ex \in {<<>>, <<"P">>}}

InitLiterals ==
    /\ rows \in SeqsUpTo(LiteralRows, MaxRows)
    /\ StartOfPasses
    /\ InsideBuild

SpecLiterals == InitLiterals /\ [][Next]_vars

(* ---------------------------------------------------------------------- *)
(* canonicalize_fieldnames.  A header is a sequence of characters; a run   *)
(* of lower-case letters that is never written otherwise is one symbol.    *)
(* ---------------------------------------------------------------------- *)
COL_ID == <<"I", "D">>
COL_PREF == <<"pref", "L", "abel">>
COL_ALT == <<"alt", "L", "abel">>
COL_DEF == <<"d", "efinition">>
COL_BROADER == <<"broader">>
COL_EXACT == <<"exact", "M", "atch">>
COL_CLOSE == <<"close", "M", "atch">>

\* the keys of COLUMN_ALIASES in dict order
CanonicalFields == <<COL_ID, COL_PREF, COL_ALT, COL_DEF, COL_BROADER, COL_EXACT, COL_CLOSE>>

COLUMN_ALIASES(canonical) ==
    CASE canonical = COL_ID ->
            <<<<"I", "D">>,
              <<"I", "D", " ", "(concepts'", " ", "U", "R", "I", "s)">>,
              <<"concept", "_", "u", "r", "i">>,
              <<"concept", " ", "u", "r", "i">>,
              <<"u", "r", "i">>>>
      [] canonical = COL_PREF ->
            <<<<"pref", "L", "abel">>, <<"pref", "l", "abel">>,
              <<"pref", " ", "l", "abel">>, <<"pref", "_", "l", "abel">>>>
      [] canonical = COL_ALT ->
            <<<<"alt", "L", "abel">>, <<"alt", "l", "abel">>,
              <<"alt", " ", "l", "abel">>, <<"alt", "_", "l", "abel">>>>
      [] canonical = COL_DEF -> <<<<"d", "efinition">>, <<"D", "efinition">>>>
      [] canonical = COL_BROADER ->
            <<<<"broader">>, <<"broader", " ", "term">>,
              <<"broader", " ", "term", " ", "(immediate,", " ",
                "semicolon-separated,", " ", "use", " ", "pref", "L", "abel)">>>>
      [] canonical = COL_EXACT ->
            <<<<"exact", "M", "atch">>, <<"exact", " ", "m", "atch">>,
              <<"exact", " ", "m", "atch", " ", "(skos:exact", "M", "atch,", " ",
                "semicolon-separated,", " ", "use", " ", "full", " ",
                "U", "R", "I", "s)">>>>
      [] canonical = COL_CLOSE ->
            <<<<"close", "M", "atch">>, <<"close", " ", "m", "atch">>,
              <<"close", " ", "m", "atch", " ", "(skos:close", "M", "atch,", " ",
                "semicolon-separated,", " ", "use", " ", "full", " ",
                "U", "R", "I", "s)">>>>

IsWhitespace(ch) == ch \in {" ", "\t"}

\* re.sub(r"\s+", "", name).casefold()
_norm_col(name) == casefold(SelectSeq(name, LAMBDA ch : ~IsWhitespace(ch)))

\* norm_to_actual: a later header replaces an earlier one with the same normal form
NormToActual(fieldnames) ==
    LET keys == {_norm_col(fieldnames[i]) : i \in 1..Len(fieldnames)}
    IN  [k \in keys |->
            LET last == CHOOSE i \in 1..Len(fieldnames) :
                            /\ _norm_col(fieldnames[i]) = k
                            /\ \A j \in (i + 1)..Len(fieldnames) :
                                  _norm_col(fieldnames[j]) # k
            IN  fieldnames[last]]

\* found_actual of one canonical field: <<>> for None, else <<the header>>
FoundActual(aliases, norm_to_actual) ==
    LET hits == {i \in 1..Len(aliases) : _norm_col(aliases[i]) \in DOMAIN norm_to_actual}
    IN  IF hits = {} THEN <<>>
        ELSE LET first == CHOOSE i \in hits : \A j \in hits : i <= j
             IN  <<norm_to_actual[_norm_col(aliases[first])]>>

\* variant: only the first alias of each field is tried
M_canonicalize_fieldnames_FirstAliasOnly(fieldnames) ==
    IF fieldnames = <<>> THEN
        [ok |-> FALSE, error |-> "CSV has no header row", missing |-> <<>>,
         rename_map |-> <<>>]
    ELSE
        LET norm_to_actual == NormToActual(fieldnames)
            found == [c \in 1..Len(CanonicalFields) |->
                        FoundActual(<<COLUMN_ALIASES(CanonicalFields[c])[1]>>,
                                    norm_to_actual)]
            missing == SelectSeq(CanonicalFields,
                          LAMBDA f : \E c \in 1..Len(CanonicalFields) :
                                        CanonicalFields[c] = f /\ found[c] = <<>>)
            actuals == {found[c][1] : c \in {d \in 1..Len(CanonicalFields) :
                                                found[d] # <<>>}}
        IN  IF missing # <<>> THEN
                [ok |-> FALSE,
                 error |-> "CSV missing required columns (after alias matching)",
                 missing |-> missing, rename_map |-> <<>>]
            ELSE
                [ok |-> TRUE, error |-> "", missing |-> <<>>,
                 rename_map |-> [a \in actuals |->
                     LET last == CHOOSE c \in 1..Len(CanonicalFields) :
                                    /\ found[c] = <<a>>
                                    /\ \A d \in (c + 1)..Len(CanonicalFields) :
                                          found[d] # <<a>>
                     IN  CanonicalFields[last]]]

\* what canonicalize_fieldnames returns (ok, rename_map) or raises (error, missing)
canonicalize_fieldnames(fieldnames) ==
    IF fieldnames = <<>> THEN
        [ok |-> FALSE, error |-> "CSV has no header row", missing |-> <<>>,
         rename_map |-> <<>>]
    ELSE
        LET norm_to_actual == NormToActual(fieldnames)
            found == [c \in 1..Len(CanonicalFields) |->
                        FoundActual(COLUMN_ALIASES(CanonicalFields[c]), norm_to_actual)]
            missing == SelectSeq(CanonicalFields,
                          LAMBDA f : \E c \in 1..Len(CanonicalFields) :
                                        CanonicalFields[c] = f /\ found[c] = <<>>)
            actuals == {found[c][1] : c \in {d \in 1..Len(CanonicalFields) :
                                                found[d] # <<>>}}
        IN  IF missing # <<>> THEN
                [ok |-> FALSE,
                 error |-> "CSV missing required columns (after alias matching)",
                 missing |-> missing, rename_map |-> <<>>]
            ELSE
                [ok |-> TRUE, error |-> "", missing |-> <<>>,
                 rename_map |-> [a \in actuals |->
                     LET last == CHOOSE c \in 1..Len(CanonicalFields) :
                                    /\ found[c] = <<a>>
                                    /\ \A d \in (c + 1)..Len(CanonicalFields) :
                                          found[d] # <<a>>
                     IN  CanonicalFields[last]]]

\* header lines: per field no column, the canonical name, or another spelling; and
\* possibly one more column at the end
HeaderChoices ==
    <<{<<>>, <<<<"I", "D">>>>, <<<<"concept", " ", "U", "R", "I">>>>,
       <<<<"u", "r", "i">>, <<"I", "D">>>>},
      {<<>>, <<<<"pref", "L", "abel">>>>, <<<<"pref", " ", "L", "abel", " ">>>>,
       <<<<"pref", "-", "l", "abel">>>>},
      {<<>>, <<<<"alt", "_", "l", "abel">>>>},
      {<<>>, <<<<"D", "efinition">>>>},
      {<<>>, <<<<"broader", " ", "term">>>>, <<<<"broader", "s">>>>},
      {<<>>, <<<<"exact", "M", "atch">>>>},
      {<<>>, <<<<"close", " ", "M", "atch">>>>}>>

ExtraHeaders == {<<>>, <<<<"i", "d">>>>, <<<<"notes">>>>}

HeaderLines ==
    {h1 \o h2 \o h3 \o h4 \o h5 \o h6 \o h7 \o x :
        h1 \in HeaderChoices[1], h2 \in HeaderChoices[2], h3 \in HeaderChoices[3],
        h4 \in HeaderChoices[4], h5 \in HeaderChoices[5], h6 \in HeaderChoices[6],
        h7 \in HeaderChoices[7], x \in ExtraHeaders}

\* build_graph_from_csv has not been entered
BuildNotEntered ==
    /\ rows = <<>>
    /\ pc = "notcalled"
    /\ procedure_concept_uris = {}
    /\ pref_to_uris = <<>>
    /\ g = {}
    /\ warnings = NoWarnings

InitHeader ==
    /\ csv \in {[exists |-> TRUE, fieldnames |-> h, records |-> <<>>] : h \in HeaderLines}
    /\ header = <<>>
    /\ mpc = "canonicalize"
    /\ args = DefaultArgs
    /\ out_file = <<>>
    /\ reference = [exists |-> FALSE, graph |-> {}]
    /\ g_existing = {}
    /\ g_existing_cmp = {}
    /\ restored_cmp = {}
    /\ report = NoReport
    /\ BuildNotEntered
    /\ ToolsNotCalled

CanonicalizeFieldnames ==
    /\ mpc = "canonicalize"
    /\ header' = canonicalize_fieldnames(csv.fieldnames)
    /\ mpc' = "canonicalized"
    /\ UNCHANGED <<csv, args, out_file, reference, g_existing, g_existing_cmp,
                   restored_cmp, report>>
    /\ UNCHANGED buildvars
    /\ UNCHANGED toolvars

NextHeader == CanonicalizeFieldnames

SpecHeader == InitHeader /\ [][NextHeader]_vars

(* ---------------------------------------------------------------------- *)
(* Verification helpers of main: filtering, inverse closure, isomorphism,  *)
(* diff_graphs and find_literal_lexical_differences.                       *)
(* ---------------------------------------------------------------------- *)
SKOS_related == "skos:related"
SEMSCIENCE_EQUIVALENT_TO == "semscience:equivalentTo"

\* the leading characters that order the IRI an abbreviation stands for
Spelled(ch) ==
    CASE ch = "P" -> <<"h", ":", "w", "3">>
      [] ch = "o" -> <<"h", ":", "a">>
      [] ch = scheme_uri[1] -> <<"h", "s">>
      [] OTHER -> <<ch>>

RECURSIVE SpelledOut(_)
SpelledOut(u) == IF u = <<>> THEN <<>> ELSE Spelled(Head(u)) \o SpelledOut(Tail(u))

\* str(p) of a predicate, as far as it orders the predicates
StrOfPredicate(p) ==
    CASE p = SEMSCIENCE_EQUIVALENT_TO -> <<"h", ":", "s">>
      [] p = RDF_type -> <<"h", ":", "w", "w", "1">>
      [] p = SKOS_altLabel -> <<"h", ":", "w", "w", "2", "a">>
      [] p = SKOS_broader -> <<"h", ":", "w", "w", "2", "b">>
      [] p = SKOS_closeMatch -> <<"h", ":", "w", "w", "2", "c">>
      [] p = SKOS_definition -> <<"h", ":", "w", "w", "2", "d">>
      [] p = SKOS_exactMatch -> <<"h", ":", "w", "w", "2", "e">>
      [] p = SKOS_hasTopConcept -> <<"h", ":", "w", "w", "2", "h">>
      [] p = SKOS_inScheme -> <<"h", ":", "w", "w", "2", "i">>
      [] p = SKOS_narrower -> <<"h", ":", "w", "w", "2", "n">>
      [] p = SKOS_prefLabel -> <<"h", ":", "w", "w", "2", "p">>
      [] p = SKOS_related -> <<"h", ":", "w", "w", "2", "r">>
      [] p = SKOS_topConceptOf -> <<"h", ":", "w", "w", "2", "t">>
      [] p = SHE_hasProcedure -> <<"h", "s", "#", "h">>
      [] p = SHE_isProcedureOf -> <<"h", "s", "#", "i">>

\* str(term): the IRI of a URIRef, the lexical form of a Literal (no language)
Str(term) == IF term[1] = "uri" THEN SpelledOut(term[2]) ELSE term[2]

isLiteral(term) == term[1] = "lit"

\* Literal.n3(): the quoted lexical form, then the language tag if any
n3(lit) ==
    <<"\"">> \o lit[2] \o <<"\"">> \o (IF lit[3] = "" THEN <<>> ELSE <<"@", lit[3]>>)

\* key=lambda t: (str(t[0]), str(t[1]), str(t[2])), compared as tuples
TripleKeyLess(t, u) ==
    \/ LexLess(Str(t[1]), Str(u[1]))
    \/ /\ Str(t[1]) = Str(u[1])
       /\ \/ LexLess(StrOfPredicate(t[2]), StrOfPredicate(u[2]))
          \/ /\ t[2] = u[2]
             /\ LexLess(Str(t[3]), Str(u[3]))

\* key=lambda k: (str(k[0]), str(k[1]))
PairKeyLess(k, l) ==
    \/ LexLess(Str(k[1]), Str(l[1]))
    \/ /\ Str(k[1]) = Str(l[1])
       /\ LexLess(StrOfPredicate(k[2]), StrOfPredicate(l[2]))

N3Less(l1, l2) == LexLess(n3(l1), n3(l2))

\* sorted(S, key=...): every order of S in which no element precedes one of a
\* smaller key; elements of equal key come in the set's iteration order, which
\* may be any
\* the three sort keys used by the verification
KeyLess(key, x, y) ==
    CASE key = "triple" -> TripleKeyLess(x, y)
      [] key = "pair" -> PairKeyLess(x, y)
      [] key = "n3" -> N3Less(x, y)

RECURSIVE sorted(_, _)
sorted(S, key) ==
    IF S = {} THEN {<<>>}
    ELSE LET least == {t \in S : \A u \in S : ~KeyLess(key, u, t)}
         IN  UNION {{<<t>> \o rest : rest \in sorted(S \ {t}, key)} : t \in least}

\* seq[:limit]
Slice(seq, limit) ==
    IF limit >= 0
    THEN SubSeq(seq, 1, IF limit < Len(seq) THEN limit ELSE Len(seq))
    ELSE SubSeq(seq, 1, IF Len(seq) + limit > 0 THEN Len(seq) + limit ELSE 0)

\* variant: the difference is cut to `limit` triples before it is sorted
M_diff_graphs_TruncateBeforeSort(g_expected, g_actual, limit) ==
    LET cut(S) == {T \in SUBSET S :
                      Cardinality(T) = IF limit < Cardinality(S) THEN limit
                                       ELSE Cardinality(S)}
    IN  {<<missing, extra>> :
            missing \in UNION {sorted(T, "triple") : T \in cut(g_expected \ g_actual)},
            extra \in UNION {sorted(T, "triple") : T \in cut(g_actual \ g_expected)}}

\* the possible results <<missing, extra>> of diff_graphs
diff_graphs(g_expected, g_actual, limit) ==
    {<<Slice(missing, limit), Slice(extra, limit)>> :
        missing \in sorted(g_expected \ g_actual, "triple"),
        extra \in sorted(g_actual \ g_expected, "triple")}

\* lit_map: the literals of each (subject, predicate) with a predicate of interest
lit_map(gr, predicates) ==
    LET keys == {<<t[1], t[2]>> : t \in {u \in gr : u[2] \in predicates /\ isLiteral(u[3])}}
    IN  [k \in keys |-> {t[3] : t \in {u \in gr : u[1] = k[1] /\ u[2] = k[2]
                                                   /\ isLiteral(u[3])}}]

\* the only order of a set under a strict total order
TheSorted(S, key) == CHOOSE seq \in sorted(S, key) : TRUE

\* variant: the keys of either graph are visited, not only the common ones
M_find_literal_lexical_differences_EitherGraph(g_expected, g_actual, predicates, limit) ==
    LET m_expected == lit_map(g_expected, predicates)
        m_actual == lit_map(g_actual, predicates)
        get(m, k) == IF k \in DOMAIN m THEN m[k] ELSE {}
        keys == TheSorted(DOMAIN m_expected \cup DOMAIN m_actual, "pair")
        differing == SelectSeq(keys, LAMBDA k : get(m_expected, k) # get(m_actual, k))
        entry(k) == <<k[1], k[2], TheSorted(get(m_expected, k), "n3"),
                      TheSorted(get(m_actual, k), "n3")>>
        taken == IF differing = <<>> THEN 0
                 ELSE IF limit <= 1 THEN 1
                 ELSE IF limit < Len(differing) THEN limit ELSE Len(differing)
    IN  [i \in 1..taken |-> entry(differing[i])]

find_literal_lexical_differences(g_expected, g_actual, predicates, limit) ==
    LET m_expected == lit_map(g_expected, predicates)
        m_actual == lit_map(g_actual, predicates)
        keys == TheSorted(DOMAIN m_expected \cap DOMAIN m_actual, "pair")
        differing == SelectSeq(keys, LAMBDA k : m_expected[k] # m_actual[k])
        entry(k) == <<k[1], k[2], TheSorted(m_expected[k], "n3"),
                      TheSorted(m_actual[k], "n3")>>
        \* the loop leaves after an append that makes len(diffs) >= limit
        taken == IF differing = <<>> THEN 0
                 ELSE IF limit <= 1 THEN 1
                 ELSE IF limit < Len(differing) THEN limit ELSE Len(differing)
    IN  [i \in 1..taken |-> entry(differing[i])]

_graph_without_predicates(gr, predicates) == {t \in gr : t[2] \notin predicates}

\* the two results are one object exactly when nothing is ignored
SameObject(predicates) == predicates = {}

top_concepts_in_scheme(gr) ==
    {t[3] : t \in {u \in gr : u[1] = SCHEME_URI /\ u[2] = SKOS_hasTopConcept}}

\* variant: only topConceptOf is derived, from hasTopConcept
M_close_topconcept_inverses_OneDirection(gr) ==
    gr \cup {<<t[3], SKOS_topConceptOf, SCHEME_URI>> :
               t \in {u \in gr : u[1] = SCHEME_URI /\ u[2] = SKOS_hasTopConcept}}

close_topconcept_inverses(gr) ==
    LET first == gr \cup {<<t[3], SKOS_topConceptOf, SCHEME_URI>> :
                            t \in {u \in gr : u[1] = SCHEME_URI
                                              /\ u[2] = SKOS_hasTopConcept}}
    IN  first \cup {<<SCHEME_URI, SKOS_hasTopConcept, t[1]>> :
                      t \in {u \in first : u[2] = SKOS_topConceptOf
                                           /\ u[3] = SCHEME_URI}}

\* rdflib's isomorphic on graphs without blank nodes
isomorphic(g1, g2) == g1 = g2

ignored_predicates(a) ==
    (IF ~a.include_related THEN {SKOS_related} ELSE {})
    \cup (IF ~a.include_equivalentto THEN {SEMSCIENCE_EQUIVALENT_TO} ELSE {})

lit_preds == {SKOS_prefLabel, SKOS_altLabel, SKOS_definition}

DIFF_LIMIT == 25

(* ---------------------------------------------------------------------- *)
(* The whole of build_graph_from_csv on a row list                         *)
(* ---------------------------------------------------------------------- *)
BuildGraph(rs) ==
    LET procs == ProcedureConceptUris(rs)
        index == PrefToUris(rs)
        g1 == {<<SCHEME_URI, RDF_type, SKOS_ConceptScheme>>} \cup ConceptTriples(rs, procs)
        out == BroaderLoop(BroaderRefs(rs), procs, index, g1, NoWarnings)
        g3 == out.g \cup NarrowerTriples(out.g)
        g4 == g3 \cup TopConceptTriples(TopConceptUris(rs, procs))
    IN  [g |-> g4, warnings |-> out.warnings]

(* ---------------------------------------------------------------------- *)
(* main: read the rows, build, serialize, and verify against the reference *)
(* document if there is one.                                               *)
(* ---------------------------------------------------------------------- *)
\* the cells of one record under the headers that map to the canonical fields
StrippedRecord(raw) ==
    Row(strip(raw.ID), strip(raw.prefLabel), strip(raw.altLabel), strip(raw.definition),
        strip(raw.broader), strip(raw.exactMatch), strip(raw.closeMatch))

StrippedRecords(records) == [i \in 1..Len(records) |-> StrippedRecord(records[i])]

TopRecord == Row(<<"a">>, <<"S", " ">>, <<>>, <<"d">>, <<>>, <<>>, <<>>)
ChildRecord == Row(<<"b">>, <<"x">>, <<>>, <<>>, <<"s">>, <<"o">>, <<>>)
ProcedureRecord == Row(<<"d">>, <<>>, <<>>, <<"d">>, <<"S">>, <<"P">>, <<>>)

MainRecords ==
    {<<>>, <<TopRecord>>, <<ChildRecord>>, <<TopRecord, ChildRecord>>,
     <<TopRecord, ChildRecord, ProcedureRecord>>}

AliasHeader ==
    <<<<"u", "r", "i">>, <<"pref", " ", "l", "abel">>, <<"alt", "l", "abel">>,
      <<"D", "efinition">>, <<"broader", " ", "term">>, <<"exact", " ", "m", "atch">>,
      <<"close", "M", "atch">>>>

CsvFiles ==
    {[exists |-> TRUE, fieldnames |-> h, records |-> r] :
        h \in {CanonicalHeader, AliasHeader}, r \in MainRecords}
    \cup {[exists |-> FALSE, fieldnames |-> <<>>, records |-> <<>>],
          [exists |-> TRUE, fieldnames |-> <<>>, records |-> <<>>],
          [exists |-> TRUE, fieldnames |-> Tail(CanonicalHeader),
           records |-> <<TopRecord>>]}

\* a reference document and the records derived from it, field by field
SampleRecords == <<TopRecord, ChildRecord, ProcedureRecord>>

SampleReference ==
    {<<SCHEME_URI, RDF_type, SKOS_ConceptScheme>>,
     <<URIRef(<<"a">>), RDF_type, SKOS_Concept>>,
     <<URIRef(<<"a">>), SKOS_inScheme, SCHEME_URI>>,
     <<URIRef(<<"a">>), SKOS_prefLabel, Literal(<<"S">>, "en")>>,
     <<URIRef(<<"a">>), SKOS_definition, Literal(<<"d">>, "en")>>,
     <<URIRef(<<"a">>), SKOS_narrower, URIRef(<<"b">>)>>,
     <<URIRef(<<"a">>), SHE_hasProcedure, URIRef(<<"d">>)>>,
     <<URIRef(<<"a">>), SKOS_topConceptOf, SCHEME_URI>>,
     <<SCHEME_URI, SKOS_hasTopConcept, URIRef(<<"a">>)>>,
     <<URIRef(<<"b">>), RDF_type, SKOS_Concept>>,
     <<URIRef(<<"b">>), SKOS_inScheme, SCHEME_URI>>,
     <<URIRef(<<"b">>), SKOS_prefLabel, Literal(<<"x">>, "en")>>,
     <<URIRef(<<"b">>), SKOS_exactMatch, URIRef(<<"o">>)>>,
     <<URIRef(<<"b">>), SKOS_broader, URIRef(<<"a">>)>>,
     <<URIRef(<<"d">>), RDF_type, SKOS_Concept>>,
     <<URIRef(<<"d">>), SKOS_inScheme, SCHEME_URI>>,
     <<URIRef(<<"d">>), SKOS_definition, Literal(<<"d">>, "")>>,
     <<URIRef(<<"d">>), SKOS_exactMatch, URIRef(<<"P">>)>>,
     <<URIRef(<<"d">>), SHE_isProcedureOf, URIRef(<<"a">>)>>}

\* a literal of the reference written without its language tag
Untagged(gr, p) ==
    {IF t[2] = p /\ isLiteral(t[3]) THEN <<t[1], t[2], Literal(t[3][2], "")>> ELSE t :
        t \in gr}

\* reference documents: the graph the records give, or that graph with one
\* direction of top-concept membership, with a further relation, or with
\* literals written differently
ReferenceGraphs(records) ==
    LET built == BuildGraph(StrippedRecords(records)).g
    IN  {built,
         {t \in built : t[2] # SKOS_topConceptOf},
         {t \in built : t[2] # SKOS_hasTopConcept},
         built \cup {<<URIRef(<<"a">>), SKOS_related, URIRef(<<"b">>)>>},
         built \cup {<<URIRef(<<"a">>), SEMSCIENCE_EQUIVALENT_TO, URIRef(<<"o">>)>>},
         Untagged(built, SKOS_prefLabel),
         Untagged(Untagged(built, SKOS_prefLabel), SKOS_definition)}
        \cup (IF records = SampleRecords THEN {SampleReference} ELSE {})

LimitArguments == {-1, 0, 10}

Arguments ==
    [include_related : BOOLEAN, include_topconceptof : BOOLEAN,
     include_equivalentto : BOOLEAN, literal_diff_limit : LimitArguments]

InitMain ==
    /\ csv \in CsvFiles
    /\ args \in Arguments
    /\ reference \in {[exists |-> FALSE, graph |-> {}]}
                     \cup {[exists |-> TRUE, graph |-> r] : r \in ReferenceGraphs(csv.records)}
    /\ header = <<>>
    /\ mpc = "start"
    /\ out_file = <<>>
    /\ g_existing = {}
    /\ g_existing_cmp = {}
    /\ restored_cmp = {}
    /\ report = NoReport
    /\ BuildNotEntered
    /\ ToolsNotCalled

\* variant: a header error is swallowed and the run goes on with no rows
M_ReadRows_ContinueOnError ==
    /\ mpc = "start"
    /\ IF ~csv.exists THEN
           /\ mpc' = "aborted"
           /\ UNCHANGED <<header, buildvars>>
       ELSE
           /\ header' = canonicalize_fieldnames(csv.fieldnames)
           /\ rows' = IF header'.ok THEN StrippedRecords(csv.records) ELSE <<>>
           /\ pc' = "classify"
           /\ mpc' = "build"
           /\ UNCHANGED <<procedure_concept_uris, pref_to_uris, g, warnings>>
    /\ UNCHANGED <<csv, args, out_file, reference, g_existing, g_existing_cmp,
                   restored_cmp, report>>
    /\ UNCHANGED toolvars

\* read_rows at the head of build_graph_from_csv: a missing file, a missing header
\* row or a missing column raises, and nothing catches it
ReadRows ==
    /\ mpc = "start"
    /\ IF ~csv.exists THEN
           /\ mpc' = "aborted"
           /\ UNCHANGED <<header, buildvars>>
       ELSE
           /\ header' = canonicalize_fieldnames(csv.fieldnames)
           /\ IF header'.ok THEN
                  /\ rows' = StrippedRecords(csv.records)
                  /\ pc' = "classify"
                  /\ mpc' = "build"
                  /\ UNCHANGED <<procedure_concept_uris, pref_to_uris, g, warnings>>
              ELSE
                  /\ mpc' = "aborted"
                  /\ UNCHANGED buildvars
    /\ UNCHANGED <<csv, args, out_file, reference, g_existing, g_existing_cmp,
                   restored_cmp, report>>
    /\ UNCHANGED toolvars

\* restored.serialize(destination=out_path)
Serialize ==
    /\ mpc = "build"
    /\ pc = "done"
    /\ out_file' = <<g>>
    /\ mpc' = "written"
    /\ UNCHANGED <<csv, header, args, reference, g_existing, g_existing_cmp,
                   restored_cmp, report>>
    /\ UNCHANGED buildvars
    /\ UNCHANGED toolvars

\* variant: the reference is parsed whether or not the file exists
M_CheckReference_AlwaysCompare ==
    /\ mpc = "written"
    /\ g_existing' = reference.graph
    /\ mpc' = "parsed"
    /\ UNCHANGED <<csv, header, args, out_file, reference, g_existing_cmp,
                   restored_cmp, report>>
    /\ UNCHANGED buildvars
    /\ UNCHANGED toolvars

\* if compare_path.exists(): parse it
CheckReference ==
    /\ mpc = "written"
    /\ IF reference.exists
       THEN g_existing' = reference.graph /\ mpc' = "parsed"
       ELSE g_existing' = g_existing /\ mpc' = "end"
    /\ UNCHANGED <<csv, header, args, out_file, reference, g_existing_cmp,
                   restored_cmp, report>>
    /\ UNCHANGED buildvars
    /\ UNCHANGED toolvars

FilterGraphs ==
    /\ mpc = "parsed"
    /\ g_existing_cmp' = _graph_without_predicates(g_existing, ignored_predicates(args))
    /\ restored_cmp' = _graph_without_predicates(g, ignored_predicates(args))
    /\ mpc' = "filtered"
    /\ UNCHANGED <<csv, header, args, out_file, reference, g_existing, report>>
    /\ UNCHANGED buildvars
    /\ UNCHANGED toolvars

\* close_topconcept_inverses adds to the graph object it is given, which is the
\* unfiltered graph itself when nothing is ignored
CloseInverses ==
    /\ mpc = "filtered"
    /\ IF args.include_topconceptof THEN
           /\ g_existing_cmp' = close_topconcept_inverses(g_existing_cmp)
           /\ restored_cmp' = close_topconcept_inverses(restored_cmp)
           /\ IF SameObject(ignored_predicates(args))
              THEN /\ g_existing' = close_topconcept_inverses(g_existing)
                   /\ g' = close_topconcept_inverses(g)
              ELSE UNCHANGED <<g_existing, g>>
       ELSE UNCHANGED <<g_existing_cmp, restored_cmp, g_existing, g>>
    /\ mpc' = "closed"
    /\ UNCHANGED <<csv, header, args, out_file, reference, report>>
    /\ UNCHANGED <<rows, pc, procedure_concept_uris, pref_to_uris, warnings>>
    /\ UNCHANGED toolvars

Compare ==
    /\ mpc = "closed"
    /\ report' = [report EXCEPT !.same_raw = isomorphic(g, g_existing),
                                !.same_cmp = isomorphic(restored_cmp, g_existing_cmp),
                                !.existing_top = top_concepts_in_scheme(g_existing),
                                !.restored_top = top_concepts_in_scheme(g)]
    /\ mpc' = "compared"
    /\ UNCHANGED <<csv, header, args, out_file, reference, g_existing, g_existing_cmp,
                   restored_cmp>>
    /\ UNCHANGED buildvars
    /\ UNCHANGED toolvars

NonNegative(n) == IF n > 0 THEN n ELSE 0

ReportDiff ==
    /\ mpc = "compared"
    /\ IF ~report.same_cmp THEN
           \E d \in diff_graphs(g_existing_cmp, restored_cmp, DIFF_LIMIT) :
               report' = [report EXCEPT
                   !.missing = d[1],
                   !.extra = d[2],
                   !.literal_diffs =
                       find_literal_lexical_differences(g_existing_cmp, restored_cmp,
                           lit_preds, NonNegative(args.literal_diff_limit)),
                   !.printed = TRUE]
       ELSE report' = [report EXCEPT !.printed = TRUE]
    /\ mpc' = "end"
    /\ UNCHANGED <<csv, header, args, out_file, reference, g_existing, g_existing_cmp,
                   restored_cmp>>
    /\ UNCHANGED buildvars
    /\ UNCHANGED toolvars

NextMain ==
    \/ ReadRows
    \/ Classify
    \/ BuildIndex
    \/ CreateConcepts
    \/ AddBroader
    \/ AddNarrower
    \/ AddTopConcepts
    \/ Serialize
    \/ CheckReference
    \/ FilterGraphs
    \/ CloseInverses
    \/ Compare
    \/ ReportDiff

SpecMain == InitMain /\ [][NextMain]_vars

(* ---------------------------------------------------------------------- *)
(* diff_graphs and find_literal_lexical_differences called on two graphs   *)
(* drawn from a few triples, with a limit and a set of predicates.         *)
(* ---------------------------------------------------------------------- *)
MaxLimit == 2

DiffTriples ==
    {<<URIRef(<<"a">>), SKOS_prefLabel, Literal(<<"S">>, "en")>>,
     <<URIRef(<<"a">>), SKOS_prefLabel, Literal(<<"S">>, "")>>,
     <<URIRef(<<"a">>), SKOS_prefLabel, URIRef(<<"b">>)>>,
     <<URIRef(<<"b">>), SKOS_definition, Literal(<<"d">>, "en")>>,
     <<URIRef(<<"b">>), SKOS_definition, Literal(<<"d">>, "")>>,
     <<URIRef(<<"b">>), SKOS_prefLabel, Literal(<<"s">>, "en")>>}

InitDiff ==
    /\ g_existing_cmp \in SUBSET DiffTriples
    /\ restored_cmp \in SUBSET DiffTriples
    /\ args \in [limit : 0..MaxLimit, predicates : {lit_preds, {SKOS_prefLabel}}]
    /\ mpc = "call diff_graphs"
    /\ report = NoReport
    /\ csv = [exists |-> FALSE, fieldnames |-> <<>>, records |-> <<>>]
    /\ header = <<>>
    /\ out_file = <<>>
    /\ reference = [exists |-> FALSE, graph |-> {}]
    /\ g_existing = {}
    /\ BuildNotEntered
    /\ ToolsNotCalled

CallDiffGraphs ==
    /\ mpc = "call diff_graphs"
    /\ \E d \in diff_graphs(g_existing_cmp, restored_cmp, args.limit) :
          report' = [report EXCEPT !.missing = d[1], !.extra = d[2]]
    /\ mpc' = "call find_literal_lexical_differences"
    /\ UNCHANGED <<csv, header, args, out_file, reference, g_existing, g_existing_cmp,
                   restored_cmp>>
    /\ UNCHANGED buildvars
    /\ UNCHANGED toolvars

CallFindLiteralLexicalDifferences ==
    /\ mpc = "call find_literal_lexical_differences"
    /\ report' = [report EXCEPT !.literal_diffs =
                     find_literal_lexical_differences(g_existing_cmp, restored_cmp,
                                                      args.predicates, args.limit)]
    /\ mpc' = "returned"
    /\ UNCHANGED <<csv, header, args, out_file, reference, g_existing, g_existing_cmp,
                   restored_cmp>>
    /\ UNCHANGED buildvars
    /\ UNCHANGED toolvars

NextDiff == CallDiffGraphs \/ CallFindLiteralLexicalDifferences

SpecDiff == InitDiff /\ [][NextDiff]_vars

(* ---------------------------------------------------------------------- *)
(* generate_soilvoc_html: parse_skos_vocabulary_enhanced on the graph that *)
(* build_graph_from_csv returned, with the recursion of get_concept_info   *)
(* as a stack of calls.                                                    *)
(* ---------------------------------------------------------------------- *)
\* the depth at which the interpreter raises RecursionError
RecursionLimit == 4

\* the order in which the store hands out the members of a set
RECURSIVE SomeOrder(_)
SomeOrder(S) ==
    IF S = {} THEN <<>>
    ELSE LET x == CHOOSE y \in S : TRUE
         IN  <<x>> \o SomeOrder(S \ {x})

objects(gr, s, p) == {t[3] : t \in {u \in gr : u[1] = s /\ u[2] = p}}

subjects(gr, p, o) == {t[1] : t \in {u \in gr : u[2] = p /\ u[3] = o}}

concept_schemes(gr) == subjects(gr, RDF_type, SKOS_ConceptScheme)

\* hasTopConcept, then topConceptOf, then the concepts without skos:broader
top_concepts(gr, scheme) ==
    LET stated == objects(gr, scheme, SKOS_hasTopConcept)
                  \cup subjects(gr, SKOS_topConceptOf, scheme)
        all_concepts == subjects(gr, RDF_type, SKOS_Concept)
        concepts_with_broader == {t[1] : t \in {u \in gr : u[2] = SKOS_broader}}
    IN  IF stated # {} THEN stated ELSE all_concepts \ concepts_with_broader

\* the recursive calls one call of get_concept_info makes: the procedures, then
\* the narrower concepts (stated, or inverse of skos:broader)
RecursiveCalls(gr, concept_uri) ==
    SomeOrder(objects(gr, concept_uri, SHE_hasProcedure))
    \o SomeOrder(objects(gr, concept_uri, SKOS_narrower)
                 \cup subjects(gr, SKOS_broader, concept_uri))

\* variant: a concept already on the stack is not descended into again
M_GetConceptInfo_SkipOpenConcepts ==
    /\ hpc = "descend"
    /\ call_stack # <<>>
    /\ call_stack[Len(call_stack)].calls # <<>>
    /\ LET top == Len(call_stack)
           concept_uri == Head(call_stack[top].calls)
           open == {call_stack[i].concept : i \in 1..top}
           rest == [call_stack EXCEPT ![top].calls = Tail(@)]
       IN  IF concept_uri \in open
           THEN hpc' = hpc /\ call_stack' = rest
           ELSE /\ hpc' = hpc
                /\ call_stack' = Append(rest, [concept |-> concept_uri,
                                              calls |-> RecursiveCalls(g, concept_uri)])
    /\ UNCHANGED <<buildvars, mainvars, linkvars, glossaryvars>>

ParseSkosVocabulary ==
    /\ pc = "done"
    /\ hpc = "notcalled"
    /\ IF concept_schemes(g) = {} THEN
           hpc' = "ValueError" /\ call_stack' = call_stack
       ELSE
           LET scheme == SomeOrder(concept_schemes(g))[1]
           IN  /\ hpc' = "descend"
               /\ call_stack' = <<[concept |-> scheme,
                                   calls |-> SomeOrder(top_concepts(g, scheme))]>>
    /\ UNCHANGED <<buildvars, mainvars, linkvars, glossaryvars>>

\* the next call of get_concept_info that the innermost call in progress makes
GetConceptInfo ==
    /\ hpc = "descend"
    /\ call_stack # <<>>
    /\ call_stack[Len(call_stack)].calls # <<>>
    /\ LET top == Len(call_stack)
           concept_uri == Head(call_stack[top].calls)
           rest == [call_stack EXCEPT ![top].calls = Tail(@)]
       IN  IF top >= RecursionLimit
           THEN hpc' = "RecursionError" /\ call_stack' = call_stack
           ELSE /\ hpc' = hpc
                /\ call_stack' = Append(rest, [concept |-> concept_uri,
                                              calls |-> RecursiveCalls(g, concept_uri)])
    /\ UNCHANGED <<buildvars, mainvars, linkvars, glossaryvars>>

\* the innermost call has made all its calls and returns
ReturnConceptInfo ==
    /\ hpc = "descend"
    /\ call_stack # <<>>
    /\ call_stack[Len(call_stack)].calls = <<>>
    /\ call_stack' = SubSeq(call_stack, 1, Len(call_stack) - 1)
    /\ hpc' = IF Len(call_stack) = 1 THEN "returned" ELSE hpc
    /\ UNCHANGED <<buildvars, mainvars, linkvars, glossaryvars>>

HtmlRows ==
    {Row(id, pref, <<>>, <<>>, br, ex, <<>>) :
        id \in {<<"a">>, <<"b">>}, pref \in {<<>>, <<"S">>, <<"x">>},
        br \in {<<>>, <<"s">>, <<"x", ";", " ", "S">>}, ex \in {<<>>, <<"P">>}}

InitHtml ==
    /\ rows \in SeqsUpTo(HtmlRows, MaxRows)
    /\ StartOfPasses
    /\ InsideBuild

NextHtml ==
    \/ Next
    \/ ParseSkosVocabulary
    \/ GetConceptInfo
    \/ ReturnConceptInfo

SpecHtml == InitHtml /\ [][NextHtml]_vars

(* ---------------------------------------------------------------------- *)
(* interlink_skos: link_to_thesaurus on a local graph and one thesaurus    *)
(* file.  Labels are sequences of words and separators; "S" and "U" are    *)
(* the capitalised forms of the words "s" and "u".                         *)
(* ---------------------------------------------------------------------- *)
\* main was not called
MainNotCalled ==
    /\ csv = [exists |-> FALSE, fieldnames |-> <<>>, records |-> <<>>]
    /\ header = <<>>
    /\ mpc = "notcalled"
    /\ args = DefaultArgs
    /\ out_file = <<>>
    /\ reference = [exists |-> FALSE, graph |-> {}]
    /\ g_existing = {}
    /\ g_existing_cmp = {}
    /\ restored_cmp = {}
    /\ report = NoReport

THESAURUS_NAMESPACES ==
    {<<"agrovoc">>, <<"iso11074">>, <<"gemet">>, <<"inrae">>, <<"s", "he">>}

\* a cell pandas read: NaN for an empty cell, else its text
NaN == [na |-> TRUE, s |-> <<>>]

Cell(s) == [na |-> FALSE, s |-> s]

notna(cell) == ~cell.na

\* os.path.basename: what follows the last directory part
RECURSIVE basename(_)
basename(path) ==
    IF path = <<>> THEN <<>>
    ELSE IF \E i \in 1..Len(path) : path[i] = "/" THEN basename(Tail(path))
    ELSE path

\* os.path.splitext(...)[0]: what precedes the last extension
splitext0(name) ==
    LET dots == {i \in 2..Len(name) : name[i] = "."}
    IN  IF dots = {} THEN name
        ELSE SubSeq(name, 1, (CHOOSE i \in dots : \A j \in dots : j <= i) - 1)

\* re.sub(rf'\b{uk}\b', us, label, flags=re.IGNORECASE) for each pair of the table in turn
RECURSIVE normalize_uk_to_us(_, _)
normalize_uk_to_us(label, table) ==
    IF table = <<>> THEN label
    ELSE normalize_uk_to_us(
             [i \in 1..Len(label) |->
                 IF FoldChar(label[i]) = FoldChar(table[1][1]) THEN table[1][2] ELSE label[i]],
             Tail(table))

\* the dict comprehension of the prefLabel column: a later row replaces an earlier one
pref_label_map(trows) ==
    LET with == {i \in 1..Len(trows) : notna(trows[i].prefLabel)}
        keys == {lower(trows[i].prefLabel.s) : i \in with}
    IN  [k \in keys |->
            trows[CHOOSE i \in with :
                     /\ lower(trows[i].prefLabel.s) = k
                     /\ \A j \in with : lower(trows[j].prefLabel.s) = k => j <= i].concept]

\* the cleaned, non-empty alternative labels of one row
AltLabelsClean(row) ==
    IF notna(row.altLabels)
    THEN {lower(strip(a)) : a \in Range(split(row.altLabels.s, <<>>))} \ {<<>>}
    ELSE {}

alt_label_map(trows) ==
    LET keys == UNION {AltLabelsClean(trows[i]) : i \in 1..Len(trows)}
    IN  [k \in keys |->
            trows[CHOOSE i \in 1..Len(trows) :
                     /\ k \in AltLabelsClean(trows[i])
                     /\ \A j \in 1..Len(trows) : k \in AltLabelsClean(trows[j]) => j <= i].concept]

\* variant: the alternative labels are looked up also after a preferred label matched
M_LinkOne_BothMatches(gr, t, pm, am, table) ==
    LET normalized_label == normalize_uk_to_us(lower(t[3][2]), table)
    IN  gr \cup (IF normalized_label \in DOMAIN pm
                 THEN {<<t[1], SKOS_exactMatch, URIRef(pm[normalized_label])>>} ELSE {})
           \cup (IF normalized_label \in DOMAIN am
                 THEN {<<t[1], SKOS_closeMatch, URIRef(am[normalized_label])>>} ELSE {})

\* the body of the loop over the local prefLabel triples
LinkOne(gr, t, pm, am, table) ==
    LET local_label == lower(t[3][2])
        normalized_label == normalize_uk_to_us(local_label, table)
    IN  IF normalized_label \in DOMAIN pm
        THEN gr \cup {<<t[1], SKOS_exactMatch, URIRef(pm[normalized_label])>>}
        ELSE IF normalized_label \in DOMAIN am
        THEN gr \cup {<<t[1], SKOS_closeMatch, URIRef(am[normalized_label])>>}
        ELSE gr

RECURSIVE LinkLoop(_, _, _, _, _)
LinkLoop(gr, todo, pm, am, table) ==
    IF todo = <<>> THEN gr
    ELSE LinkLoop(LinkOne(gr, Head(todo), pm, am, table), Tail(todo), pm, am, table)

LinkToThesaurus ==
    /\ lpc = "call"
    /\ LET prefix == lower(splitext0(basename(thesaurus.path)))
       IN  IF prefix \notin THESAURUS_NAMESPACES THEN
               lpc' = "no namespace" /\ local_graph' = local_graph
           ELSE IF ~thesaurus.exists THEN
               lpc' = "file not found" /\ local_graph' = local_graph
           ELSE
               /\ lpc' = "linked"
               /\ local_graph' =
                      LinkLoop(local_graph,
                               SomeOrder({t \in local_graph : t[2] = SKOS_prefLabel}),
                               pref_label_map(thesaurus.rows),
                               alt_label_map(thesaurus.rows), uk_us)
    /\ UNCHANGED <<thesaurus, uk_us>>
    /\ UNCHANGED <<buildvars, mainvars, htmlvars, glossaryvars>>

LocalTriples ==
    {<<URIRef(<<"a">>), SKOS_prefLabel, Literal(<<"S">>, "en")>>,
     <<URIRef(<<"a">>), SKOS_prefLabel, Literal(<<"U">>, "en")>>,
     <<URIRef(<<"b">>), SKOS_prefLabel, Literal(<<"u", " ", "x">>, "en")>>,
     <<URIRef(<<"b">>), SKOS_prefLabel, Literal(<<"x">>, "en")>>,
     <<URIRef(<<"a">>), SKOS_exactMatch, URIRef(<<"o">>)>>}

ThesaurusRows ==
    [concept : {<<"o">>, <<"q">>},
     prefLabel : {NaN, Cell(<<"S">>), Cell(<<"m">>)},
     altLabels : {NaN, Cell(<<" ", "s", ";", "M", " ", "x", ";", " ">>)}]

ThesaurusFiles ==
    {[path |-> <<"..", "/", "ontovocabs", "/", "agrovoc", ".", "csv">>,
      exists |-> TRUE, rows |-> rs] : rs \in SeqsUpTo(ThesaurusRows, MaxRows)}
    \cup {[path |-> p, exists |-> TRUE, rows |-> rs] :
             p \in {<<"S", "he", ".", "csv">>,
                    <<"..", "/", "ontovocabs", "/", "soil", ".", "csv">>},
             rs \in SeqsUpTo(ThesaurusRows, 1)}
    \cup {[path |-> <<"gemet", ".", "csv">>, exists |-> FALSE, rows |-> <<>>]}

InitLink ==
    /\ lpc = "call"
    /\ local_graph \in SUBSET LocalTriples
    /\ thesaurus \in ThesaurusFiles
    /\ uk_us \in {<<>>, <<<<"u", "m">>>>}
    /\ BuildNotEntered
    /\ MainNotCalled
    /\ HtmlNotCalled
    /\ GlossaryNotCalled

NextLink == LinkToThesaurus

SpecLink == InitLink /\ [][NextLink]_vars

(* ---------------------------------------------------------------------- *)
(* glossary_to_skos: csv_to_skos_rdf, its two passes over the rows.        *)
(* ---------------------------------------------------------------------- *)
\* value.split(sep) for a one-character separator: always at least one part
RECURSIVE split_on(_, _, _)
split_on(s, sep, cur) ==
    IF s = <<>> THEN <<cur>>
    ELSE IF Head(s) = sep THEN <<cur>> \o split_on(Tail(s), sep, <<>>)
    ELSE split_on(Tail(s), sep, Append(cur, Head(s)))

\* value.rstrip('/')
RECURSIVE rstrip_slash(_)
rstrip_slash(s) ==
    IF s # <<>> /\ s[Len(s)] = "/" THEN rstrip_slash(SubSeq(s, 1, Len(s) - 1)) ELSE s

\* BENCHMARKS[fragment]
BENCHMARKS(fragment) == URIRef(<<"https://soilhealthbenchmarks.eu/glossary/">> \o fragment)

term_to_uri_fragment(term) ==
    [i \in 1..Len(term) |->
        IF lower(term)[i] \in {" ", "_"} THEN "-" ELSE lower(term)[i]]

\* None is <<>>, which `if not fragment` treats as the empty string
extract_uri_fragment_from_url(url) ==
    IF url.na \/ url.s = <<>> THEN <<>>
    ELSE LET parts == split_on(rstrip_slash(url.s), "/", <<>>)
         IN  parts[Len(parts)]

FragmentOfRow(row) ==
    IF extract_uri_fragment_from_url(row.url) # <<>>
    THEN extract_uri_fragment_from_url(row.url)
    ELSE term_to_uri_fragment(row.term)

\* the first pass: term_to_fragment_map[term.lower()] = fragment, row after row
RECURSIVE FirstPassLoop(_, _)
FirstPassLoop(map, todo) ==
    IF todo = <<>> THEN map
    ELSE LET key == lower(Head(todo).term)
         IN  FirstPassLoop([k \in DOMAIN map \cup {key} |->
                               IF k = key THEN FragmentOfRow(Head(todo)) ELSE map[k]],
                           Tail(todo))

\* the stripped, non-empty parts of a cell
CellParts(cell, sep) ==
    IF notna(cell) /\ cell.s # <<>>
    THEN {strip(part) : part \in Range(split_on(cell.s, sep, <<>>))} \ {<<>>}
    ELSE {}

\* variant: the related term is looked up as written
M_RelatedTriples_AsWritten(row, map) ==
    {<<BENCHMARKS(map[lower(row.term)]), SKOS_related, BENCHMARKS(map[related_term])>> :
        related_term \in {t \in CellParts(row.related, ";") : t \in DOMAIN map}}

RelatedTriples(row, map) ==
    {<<BENCHMARKS(map[lower(row.term)]), SKOS_related,
       BENCHMARKS(map[lower(related_term)])>> :
        related_term \in {t \in CellParts(row.related, ";") : lower(t) \in DOMAIN map}}

GlossaryRowTriples(row, map) ==
    LET concept_uri == BENCHMARKS(map[lower(row.term)])
    IN  {<<concept_uri, RDF_type, SKOS_Concept>>,
         <<concept_uri, SKOS_prefLabel, Literal(lower(row.term), "en")>>}
        \cup {<<concept_uri, SKOS_definition, Literal(def_text, "en")>> :
                 def_text \in CellParts(row.definition, "|")}
        \cup RelatedTriples(row, map)

FirstPass ==
    /\ gpc = "call"
    /\ IF ~df.exists THEN
           gpc' = "file not found" /\ term_to_fragment_map' = term_to_fragment_map
       ELSE
           /\ gpc' = "second pass"
           /\ term_to_fragment_map' = FirstPassLoop(<<>>, df.rows)
    /\ UNCHANGED <<df, glossary_graph>>
    /\ UNCHANGED <<buildvars, mainvars, htmlvars, linkvars>>

SecondPass ==
    /\ gpc = "second pass"
    /\ glossary_graph' =
           UNION {GlossaryRowTriples(df.rows[i], term_to_fragment_map) : i \in 1..Len(df.rows)}
    /\ gpc' = "serialized"
    /\ UNCHANGED <<df, term_to_fragment_map>>
    /\ UNCHANGED <<buildvars, mainvars, htmlvars, linkvars>>

GlossaryRows ==
    [term : {<<"S">>, <<"s">>, <<"m", " ", "y">>},
     url : {NaN, Cell(<<"h", "/", "q", "/">>), Cell(<<"/">>)},
     definition : {NaN, Cell(<<"d", " ", "|", "|", "e">>)},
     related : {NaN, Cell(<<" ", "s", ";", "M", " ", "y", ";", "z">>),
                Cell(<<"S", ";", ";">>)}]

InitGlossary ==
    /\ gpc = "call"
    /\ df \in {[exists |-> TRUE, rows |-> rs] : rs \in SeqsUpTo(GlossaryRows, MaxRows)}
              \cup {[exists |-> FALSE, rows |-> <<>>]}
    /\ term_to_fragment_map = <<>>
    /\ glossary_graph = {}
    /\ BuildNotEntered
    /\ MainNotCalled
    /\ HtmlNotCalled
    /\ LinkNotCalled

NextGlossary == FirstPass \/ SecondPass

SpecGlossary == InitGlossary /\ [][NextGlossary]_vars

(* ---------------------------------------------------------------------- *)
(* Vocabulary of the properties                                            *)
(* ---------------------------------------------------------------------- *)
Returned == pc = "done"

\* the identifiers of the rows that become concepts
ConceptIds == {strip(rows[i].ID) : i \in {j \in 1..Len(rows) : strip(rows[j].ID) # <<>>}}

\* the identifiers of the rows whose prefLabel equals the label, ignoring case
MatchingIds(label) ==
    {strip(rows[i].ID) : i \in {j \in 1..Len(rows) :
        /\ strip(rows[j].ID) # <<>>
        /\ strip(rows[j].prefLabel) # <<>>
        /\ casefold(strip(rows[j].prefLabel)) = casefold(label)}}

\* the broader references of the input: <<child identifier, label>> per occurrence
References == BroaderRefs(rows)

IsProcedure(id) == id \in procedure_concept_uris

Has(s, p, o) == <<URIRef(s), p, URIRef(o)>> \in g

\* the parent the code chose for reference i, when it chose one
Resolution(i) == resolve_pref_to_uri(References[i].label, pref_to_uris)

(* ---------------------------------------------------------------------- *)
(* C1: in the returned graph every (child, skos:broader, parent) comes     *)
(* with (parent, skos:narrower, child), whatever the rows: unresolved,     *)
(* ambiguous, duplicate or self-referencing broader labels included.       *)
(* ---------------------------------------------------------------------- *)
C1_InverseClosure ==
    Returned =>
        \A t \in g : t[2] = SKOS_broader => <<t[3], SKOS_narrower, t[1]>> \in g

\* a returned graph with a broader edge between two different concepts, built from
\* an input that also has an ambiguous label
C1_Witness ==
    /\ Returned
    /\ \E t \in g : t[2] = SKOS_broader /\ t[1] # t[3]
    /\ warnings.ambiguous_broader_labels # <<>>

(* ---------------------------------------------------------------------- *)
(* C2: a reference of a procedure row that resolves to a non-procedure     *)
(* concept P yields (row, she:isProcedureOf, P) and (P, she:hasProcedure,  *)
(* row), and neither (row, skos:broader, P) nor (P, skos:narrower, row).   *)
(* ---------------------------------------------------------------------- *)
C2_ProcedureEdgeRouting ==
    Returned =>
        \A ref \in Range(References) :
            LET c == ref.concept_uri
                res == resolve_pref_to_uri(ref.label, pref_to_uris)
                P == res.uri
            IN  (res.found /\ IsProcedure(c) /\ ~IsProcedure(P)) =>
                    /\ Has(c, SHE_isProcedureOf, P)
                    /\ Has(P, SHE_hasProcedure, c)
                    /\ ~Has(c, SKOS_broader, P)
                    /\ ~Has(P, SKOS_narrower, c)

\* a procedure row that precedes the non-procedure row it refers to
C2_Witness ==
    /\ Returned
    /\ \E i \in 1..Len(References) :
          /\ Resolution(i).found
          /\ IsProcedure(References[i].concept_uri)
          /\ ~IsProcedure(Resolution(i).uri)
          /\ Len(rows) = 2
          /\ strip(rows[1].ID) = References[i].concept_uri
          /\ strip(rows[2].ID) = Resolution(i).uri

(* ---------------------------------------------------------------------- *)
(* C3: a resolved reference (child, parent) yields an ordinary             *)
(* skos:broader edge when the child is not a procedure (whatever the       *)
(* parent is) and when both are procedures; in both cases there is no      *)
(* (child, she:isProcedureOf, parent) and no (parent, she:hasProcedure,    *)
(* child).                                                                 *)
(* ---------------------------------------------------------------------- *)
C3_OrdinaryBroaderRouting ==
    Returned =>
        \A ref \in Range(References) :
            LET c == ref.concept_uri
                res == resolve_pref_to_uri(ref.label, pref_to_uris)
                P == res.uri
            IN  (res.found /\ (~IsProcedure(c) \/ IsProcedure(P))) =>
                    /\ Has(c, SKOS_broader, P)
                    /\ ~Has(c, SHE_isProcedureOf, P)
                    /\ ~Has(P, SHE_hasProcedure, c)

\* both cases at once: a non-procedure child of a procedure parent, and a procedure
\* child whose parent is a procedure
C3_Witness ==
    /\ Returned
    /\ \E i, j \in 1..Len(References) :
          /\ Resolution(i).found /\ Resolution(j).found
          /\ ~IsProcedure(References[i].concept_uri)
          /\ IsProcedure(Resolution(i).uri)
          /\ IsProcedure(References[j].concept_uri)
          /\ IsProcedure(Resolution(j).uri)

(* ---------------------------------------------------------------------- *)
(* C4: resolve_pref_to_uri matches the label against prefLabel ignoring    *)
(* case, over all rows: no match gives None, one matching identifier gives *)
(* it, several give the lexicographically smallest, in any row order.      *)
(* ---------------------------------------------------------------------- *)
\* the index is complete and the broader pass is about to resolve labels with it
IndexBuilt == pc = "broader"

ProbeLabels == {<<"S">>, <<"s">>, <<"x">>}

C4_ResolveByLabel ==
    IndexBuilt =>
        /\ \A label \in ProbeLabels :
              LET r == resolve_pref_to_uri(label, pref_to_uris)
                  M == MatchingIds(label)
              IN  /\ (M = {}) => ~r.found
                  /\ (M # {}) =>
                        /\ r.found
                        /\ r.uri \in M
                        /\ \A v \in M : ~LexLess(v, r.uri)
        /\ \A f \in Permutations(1..Len(rows)) :
              LET index == PrefToUris(Permuted(rows, f))
              IN  \A label \in ProbeLabels :
                      LET r == resolve_pref_to_uri(label, pref_to_uris)
                          q == resolve_pref_to_uri(label, index)
                      IN  q.found = r.found /\ q.uri = r.uri

\* two rows share the label up to case, the larger identifier comes first, and the
\* label is looked up in the other case
C4_Witness ==
    /\ IndexBuilt
    /\ Len(rows) = 2
    /\ MatchingIds(<<"s">>) = {<<"a">>, <<"b">>}
    /\ strip(rows[1].ID) = <<"b">>
    /\ resolve_pref_to_uri(<<"s">>, pref_to_uris).uri = <<"a">>

(* ---------------------------------------------------------------------- *)
(* C5: an "ambiguous labels" warning is recorded for a resolution if and   *)
(* only if the label is borne by more than one identifier; a label borne   *)
(* by one identifier, even in several rows, resolves without a warning.    *)
(* ---------------------------------------------------------------------- *)
AmbiguousReferences ==
    LET refs == References
    IN  {i \in 1..Len(refs) : Cardinality(MatchingIds(refs[i].label)) > 1}

C5_AmbiguousIffSeveralIds ==
    Returned =>
        Len(warnings.ambiguous_broader_labels) = Cardinality(AmbiguousReferences)

(* ---------------------------------------------------------------------- *)
(* C6: a broader label that no row bears yields no edge of any kind and    *)
(* one line with the label in the "unresolved" report per occurrence; the  *)
(* build still returns a graph.                                            *)
(* ---------------------------------------------------------------------- *)
UnresolvedReferences ==
    SelectSeq(References, LAMBDA r : MatchingIds(r.label) = {})

Contains(line, label) ==
    \E k \in 1..Len(line) : SubSeq(line, k, k + Len(label) - 1) = label

\* a hierarchy or ownership triple is backed by a reference of the child whose label
\* is borne by the parent
Backed(refs, child, parent) ==
    \E ref \in refs : ref.concept_uri = child[2] /\ parent[2] \in MatchingIds(ref.label)

C6_UnresolvedDropped ==
    Returned =>
        LET unresolved == UnresolvedReferences
            refs == Range(References)
        IN  /\ Len(warnings.unresolved_broader_labels) = Len(unresolved)
            /\ \A i \in 1..Len(unresolved) :
                  Contains(warnings.unresolved_broader_labels[i], unresolved[i].label)
            /\ \A t \in g :
                  /\ t[2] \in {SKOS_broader, SHE_isProcedureOf} => Backed(refs, t[1], t[3])
                  /\ t[2] \in {SKOS_narrower, SHE_hasProcedure} => Backed(refs, t[3], t[1])

\* one row refers to a label no row bears and to a label that resolves: one warning
\* line, one edge, and the graph is returned
C6_Witness ==
    /\ Returned
    /\ Len(warnings.unresolved_broader_labels) = 1
    /\ Contains(warnings.unresolved_broader_labels[1], <<"x">>)
    /\ \E t \in g : t[2] = SKOS_broader

(* ---------------------------------------------------------------------- *)
(* C7: a concept is a top concept of the scheme if and only if it is not a *)
(* procedure and the broader field of a row of it is empty; a procedure is *)
(* never a top concept.                                                    *)
(* ---------------------------------------------------------------------- *)
HasEmptyBroaderRow(id) ==
    \E i \in 1..Len(rows) : strip(rows[i].ID) = id /\ rows[i].broader = <<>>

IsTopConcept(id) == <<SCHEME_URI, SKOS_hasTopConcept, URIRef(id)>> \in g

Subjects == {t[1] : t \in g} \cup {URIRef(id) : id \in IdCells}

C8_TopConceptSymmetry ==
    Returned =>
        \A t \in Subjects \cup {x[3] : x \in g} :
            (<<SCHEME_URI, SKOS_hasTopConcept, t>> \in g)
                <=> (<<t, SKOS_topConceptOf, SCHEME_URI>> \in g)

C8_Witness ==
    /\ Returned
    /\ \E id \in ConceptIds :
          /\ <<SCHEME_URI, SKOS_hasTopConcept, URIRef(id)>> \in g
          /\ <<URIRef(id), SKOS_topConceptOf, SCHEME_URI>> \in g
    /\ \E id \in ConceptIds : ~IsTopConcept(id)

(* ---------------------------------------------------------------------- *)
(* C9: the triples built from a row list do not depend on the order of the *)
(* rows: every permutation of the rows gives the same graph (a child row   *)
(* before its parent row gets the same edge kind as one after it); only    *)
(* the order of the warning lines may differ.                              *)
(* ---------------------------------------------------------------------- *)
Count(seq, x) == Cardinality({i \in 1..Len(seq) : seq[i] = x})

SameLines(s1, s2) ==
    /\ Len(s1) = Len(s2)
    /\ \A x \in Range(s1) \cup Range(s2) : Count(s1, x) = Count(s2, x)

C9_RowOrderIndependent ==
    Returned =>
        \A f \in Permutations(1..Len(rows)) :
            LET b == BuildGraph(Permuted(rows, f))
            IN  /\ b.g = g
                /\ SameLines(b.warnings.unresolved_broader_labels,
                             warnings.unresolved_broader_labels)
                /\ SameLines(b.warnings.ambiguous_broader_labels,
                             warnings.ambiguous_broader_labels)

\* a procedure row that comes before the ordinary row it refers to, which shares its
\* label with the first row, so that the choice among candidates matters too
C9_Witness ==
    /\ Returned
    /\ Len(rows) = 2
    /\ rows[1] # rows[2]
    /\ IsProcedure(strip(rows[1].ID))
    /\ Has(strip(rows[1].ID), SHE_isProcedureOf, strip(rows[2].ID))
    /\ warnings.ambiguous_broader_labels # <<>>

(* ---------------------------------------------------------------------- *)
(* C10 as stated: a row is classified as a procedure if and only if one of *)
(* its own exactMatch values begins with a procedure namespace prefix; a   *)
(* row with no exactMatch value is never classified as a procedure.        *)
(* ---------------------------------------------------------------------- *)
Classified == pc # "classify"

\* is_procedure_concept of row i; a row without identifier is skipped, never classified
RowClassifiedProcedure(i) ==
    strip(rows[i].ID) # <<>> /\ strip(rows[i].ID) \in procedure_concept_uris

OwnExactMatchHasPrefix(i) ==
    \E u \in Range(split_semicolon(rows[i].exactMatch)) :
        \E p \in PROCEDURE_EXACTMATCH_PREFIXES : startswith(u, p)

C10_OwnExactMatchOnly ==
    Classified =>
        \A i \in 1..Len(rows) : RowClassifiedProcedure(i) <=> OwnExactMatchHasPrefix(i)

(* ---------------------------------------------------------------------- *)
(* C10 amended: a row with a non-empty identifier is classified as a       *)
(* procedure if and only if an exactMatch value of some row with the same  *)
(* identifier begins with a procedure namespace prefix; a row with an      *)
(* empty identifier is never classified, and neither is a row whose        *)
(* identifier has no exactMatch value in any row.                          *)
(* ---------------------------------------------------------------------- *)
C10_ClassifiedByIdentifier ==
    Classified =>
        LET own == [i \in 1..Len(rows) |-> OwnExactMatchHasPrefix(i)]
            none == [i \in 1..Len(rows) |-> split_semicolon(rows[i].exactMatch) = <<>>]
        IN  \A i \in 1..Len(rows) :
                /\ RowClassifiedProcedure(i) <=>
                      /\ rows[i].ID # <<>>
                      /\ \E j \in 1..Len(rows) : rows[j].ID = rows[i].ID /\ own[j]
                /\ (\A j \in 1..Len(rows) : rows[j].ID = rows[i].ID => none[j])
                      => ~RowClassifiedProcedure(i)

\* two rows with one identifier: the first has no exactMatch value and is classified
\* as a procedure because of the second
C10_Witness ==
    /\ Classified
    /\ Len(rows) = 2
    /\ rows[1].ID = rows[2].ID
    /\ rows[1].exactMatch = <<>>
    /\ OwnExactMatchHasPrefix(2)
    /\ RowClassifiedProcedure(1)

(* ---------------------------------------------------------------------- *)
(* C11: for the rows A (no broader), B (broader = A's prefLabel) and C     *)
(* (broader = A's prefLabel, a procedure exactMatch), in any order, the    *)
(* graph has A as a top concept, (B, broader, A), (A, narrower, B),        *)
(* (C, isProcedureOf, A) and (A, hasProcedure, C), and not (C, broader,    *)
(* A); B and C are not top concepts and no warning is recorded.            *)
(* ---------------------------------------------------------------------- *)
\* the identifiers of A, B and C: A has no broader label, C the procedure exactMatch
ScenarioA == (CHOOSE i \in 1..Len(rows) : rows[i].broader = <<>>)

ScenarioC ==
    (CHOOSE i \in 1..Len(rows) : rows[i].broader # <<>> /\ rows[i].exactMatch # <<>>)

ScenarioB ==
    (CHOOSE i \in 1..Len(rows) : rows[i].broader # <<>> /\ rows[i].exactMatch = <<>>)

C11_RoundTripScenario ==
    Returned =>
        LET A == rows[ScenarioA].ID
            B == rows[ScenarioB].ID
            C == rows[ScenarioC].ID
        IN  /\ IsTopConcept(A)
            /\ <<URIRef(A), SKOS_topConceptOf, SCHEME_URI>> \in g
            /\ Has(B, SKOS_broader, A)
            /\ Has(A, SKOS_narrower, B)
            /\ Has(C, SHE_isProcedureOf, A)
            /\ Has(A, SHE_hasProcedure, C)
            /\ ~Has(C, SKOS_broader, A)
            /\ ~IsTopConcept(B)
            /\ ~IsTopConcept(C)
            /\ warnings = NoWarnings

\* the scenario with the procedure row first and the top row last, the labels
\* written in the other case
C11_Witness ==
    /\ Returned
    /\ Len(rows) = 3
    /\ ScenarioC = 1
    /\ ScenarioA = 3
    /\ rows[1].broader = <<"s">>
    /\ Has(rows[1].ID, SHE_isProcedureOf, rows[3].ID)

(* ---------------------------------------------------------------------- *)
(* C20: with a valid header and no data row the build returns a graph that *)
(* declares the scheme a skos:ConceptScheme and holds no concept, no top   *)
(* concept and no hierarchy triple, with an empty warning report.          *)
(* ---------------------------------------------------------------------- *)
C20_EmptyRowSet ==
    (Returned /\ rows = <<>>) =>
        /\ <<SCHEME_URI, RDF_type, SKOS_ConceptScheme>> \in g
        /\ \A t \in g : t = <<SCHEME_URI, RDF_type, SKOS_ConceptScheme>>
        /\ warnings = NoWarnings

C20_Witness ==
    /\ Returned
    /\ rows = <<>>
    /\ g # {}

(* ---------------------------------------------------------------------- *)
(* C13 as stated: canonicalize_fieldnames succeeds if and only if each of  *)
(* the seven canonical fields has a header equal to one of its aliases     *)
(* after removing whitespace and case folding; on success every canonical  *)
(* field is the image of exactly one header; otherwise the error lists     *)
(* exactly the canonical fields without a match.                           *)
(* ---------------------------------------------------------------------- *)
Canonicalized == mpc = "canonicalized"

\* the header spelled without whitespace and in lower case
Squeezed(name) ==
    LET kept == SelectSeq(name, LAMBDA ch : ch # " " /\ ch # "\t")
    IN  [i \in 1..Len(kept) |-> FoldChar(kept[i])]

HasMatch(field) ==
    \E i \in 1..Len(csv.fieldnames) :
        \E k \in 1..Len(COLUMN_ALIASES(field)) :
            Squeezed(csv.fieldnames[i]) = Squeezed(COLUMN_ALIASES(field)[k])

Unmatched == {f \in Range(CanonicalFields) : ~HasMatch(f)}

SuccessRule ==
    /\ header.ok <=> (Unmatched = {})
    /\ header.ok =>
          /\ DOMAIN header.rename_map \subseteq Range(csv.fieldnames)
          /\ \A f \in Range(CanonicalFields) :
                Cardinality({a \in DOMAIN header.rename_map :
                                header.rename_map[a] = f}) = 1
          /\ \A a \in DOMAIN header.rename_map :
                \E k \in 1..Len(COLUMN_ALIASES(header.rename_map[a])) :
                    Squeezed(a) = Squeezed(COLUMN_ALIASES(header.rename_map[a])[k])

C13_ErrorListsUnmatched ==
    Canonicalized =>
        /\ SuccessRule
        /\ ~header.ok => Range(header.missing) = Unmatched

(* ---------------------------------------------------------------------- *)
(* C13 amended: as stated, except that a file without field names raises   *)
(* "CSV has no header row", which lists no field; with at least one field  *)
(* name the error lists exactly the canonical fields without a match.      *)
(* ---------------------------------------------------------------------- *)
C13_CanonicalizeFieldnames ==
    Canonicalized =>
        /\ SuccessRule
        /\ (~header.ok /\ csv.fieldnames # <<>>) =>
              /\ Range(header.missing) = Unmatched
              /\ header.error = "CSV missing required columns (after alias matching)"
        /\ csv.fieldnames = <<>> =>
              /\ ~header.ok
              /\ header.error = "CSV has no header row"
              /\ header.missing = <<>>

\* a header line that succeeds through other spellings, with two identifier columns
\* and a further column
C13_Witness ==
    /\ Canonicalized
    /\ header.ok
    /\ Len(csv.fieldnames) = 9
    /\ <<"pref", " ", "L", "abel", " ">> \in DOMAIN header.rename_map
    /\ <<"u", "r", "i">> \notin DOMAIN header.rename_map

(* ---------------------------------------------------------------------- *)
(* C12: a configuration error (no input file, no header row, a required    *)
(* column missing) aborts the run before anything is written: no graph, no *)
(* warnings and no output file are produced; and the output file is        *)
(* written only after build_graph_from_csv has returned, and holds the     *)
(* graph it returned.                                                      *)
(* ---------------------------------------------------------------------- *)
ConfigurationError ==
    \/ ~csv.exists
    \/ csv.fieldnames = <<>>
    \/ Unmatched # {}

Aborted == mpc = "aborted"

C12_ConfigErrorWritesNothing ==
    /\ ConfigurationError =>
          /\ mpc \in {"start", "aborted"}
          /\ pc = "notcalled"
          /\ g = {}
          /\ warnings = NoWarnings
          /\ out_file = <<>>
          /\ ~report.printed
    /\ Aborted => ConfigurationError
    /\ out_file # <<>> =>
          /\ pc = "done"
          /\ mpc \notin {"start", "build", "aborted"}
          /\ out_file = <<BuildGraph(StrippedRecords(csv.records)).g>>

\* a file whose header lacks a required column has aborted the run
C12_Witness ==
    /\ Aborted
    /\ csv.exists
    /\ csv.fieldnames # <<>>
    /\ csv.records # <<>>
    /\ out_file = <<>>

(* ---------------------------------------------------------------------- *)
(* C14: in main the rebuilt graph is serialized to the output file before  *)
(* any comparison with the reference starts; the comparison runs only if   *)
(* the reference file exists; and whatever the comparison finds, the run   *)
(* goes on to its end and the output file is not written again.            *)
(* ---------------------------------------------------------------------- *)
Comparing == mpc \in {"parsed", "filtered", "closed", "compared"}

ComparisonStarted == Comparing \/ report # NoReport

C14_SerializeThenCompare ==
    /\ [](/\ ComparisonStarted => (out_file # <<>> /\ reference.exists)
          /\ ~reference.exists =>
                (g_existing = {} /\ g_existing_cmp = {} /\ restored_cmp = {})
          /\ Comparing => ENABLED NextMain
          /\ (Aborted \/ mpc \in {"start", "build"}) => ~ComparisonStarted
          /\ (mpc = "end" /\ reference.exists) => report.printed)
    /\ [][out_file # <<>> => out_file' = out_file]_vars

\* a comparison that found differences has been reported and the run has ended
C14_Witness ==
    /\ mpc = "end"
    /\ report.printed
    /\ ~report.same_cmp
    /\ report.missing # <<>>
    /\ report.extra # <<>>
    /\ out_file # <<>>

(* ---------------------------------------------------------------------- *)
(* C15: skos:related, skos:topConceptOf and semscience:equivalentTo are    *)
(* each left out of the compared graphs unless its --include-* flag is     *)
(* given, and take part in the comparison when it is; without              *)
(* --include-topconceptof no skos:topConceptOf triple reaches the compared *)
(* graphs or the reported diff.                                            *)
(* ---------------------------------------------------------------------- *)
ExcludedKinds ==
    (IF args.include_related THEN {} ELSE {SKOS_related})
    \cup (IF args.include_topconceptof THEN {} ELSE {SKOS_topConceptOf})
    \cup (IF args.include_equivalentto THEN {} ELSE {SEMSCIENCE_EQUIVALENT_TO})

FilteringDone == mpc \in {"filtered", "closed", "compared", "end"} /\ reference.exists

C15_ExcludedUnlessIncluded ==
    FilteringDone =>
        /\ \A t \in g_existing_cmp \cup restored_cmp : t[2] \notin ExcludedKinds
        /\ {t \in reference.graph : t[2] \notin ExcludedKinds} \subseteq g_existing_cmp
        /\ {t \in out_file[1] : t[2] \notin ExcludedKinds} \subseteq restored_cmp
        /\ \A i \in 1..Len(report.missing) : report.missing[i][2] \notin ExcludedKinds
        /\ \A i \in 1..Len(report.extra) : report.extra[i][2] \notin ExcludedKinds

(* ---------------------------------------------------------------------- *)
(* C16 as stated: whenever skos:topConceptOf is excluded from the          *)
(* comparison (no --include-topconceptof), two graphs that differ only in  *)
(* which direction of top-concept membership they state are reported as    *)
(* equal, both having been closed under the inverse first.                 *)
(* ---------------------------------------------------------------------- *)
InverseClosure(gr) ==
    gr \cup {<<t[3], SKOS_topConceptOf, SCHEME_URI>> :
                t \in {u \in gr : u[1] = SCHEME_URI /\ u[2] = SKOS_hasTopConcept}}
       \cup {<<SCHEME_URI, SKOS_hasTopConcept, t[1]>> :
                t \in {u \in gr : u[2] = SKOS_topConceptOf /\ u[3] = SCHEME_URI}}

DirectionOnly ==
    /\ reference.exists
    /\ out_file # <<>>
    /\ reference.graph # out_file[1]
    /\ InverseClosure(reference.graph) = InverseClosure(out_file[1])

Compared == mpc \in {"compared", "end"} /\ reference.exists

WithoutIgnored(gr) ==
    {t \in gr : /\ (t[2] = SKOS_related => args.include_related)
                /\ (t[2] = SEMSCIENCE_EQUIVALENT_TO => args.include_equivalentto)}

ClosureStepDone == mpc \in {"closed", "compared", "end"} /\ reference.exists

DiffReturned == mpc \in {"call find_literal_lexical_differences", "returned"}

\* list is the first `limit` elements of an order of S sorted by the triples' key
FirstSorted(list, S, limit) ==
    /\ Len(list) = (IF limit < Cardinality(S) THEN limit ELSE Cardinality(S))
    /\ Range(list) \subseteq S
    /\ \A i, j \in 1..Len(list) : i < j =>
          (list[i] # list[j] /\ ~TripleKeyLess(list[j], list[i]))
    /\ \A t \in S \ Range(list) : \A i \in 1..Len(list) : ~TripleKeyLess(t, list[i])

C17_DiffGraphs ==
    DiffReturned =>
        /\ FirstSorted(report.missing, g_existing_cmp \ restored_cmp, args.limit)
        /\ FirstSorted(report.extra, restored_cmp \ g_existing_cmp, args.limit)
        /\ Range(report.missing) \cap Range(report.extra) = {}
        /\ args.limit >= 1 =>
              ((report.missing = <<>> /\ report.extra = <<>>)
                  <=> g_existing_cmp = restored_cmp)

\* both differences are longer than the limit, and the missing list starts with
\* one of two triples of equal key
C17_Witness ==
    /\ DiffReturned
    /\ args.limit = 1
    /\ Cardinality(g_existing_cmp \ restored_cmp) = 3
    /\ Cardinality(restored_cmp \ g_existing_cmp) = 2
    /\ report.missing = <<<<URIRef(<<"a">>), SKOS_prefLabel, Literal(<<"S">>, "")>>>>
    /\ Len(report.extra) = 1

(* ---------------------------------------------------------------------- *)
(* C18 as stated: find_literal_lexical_differences reports a (subject,     *)
(* predicate) pair if and only if the predicate is in the configured set,  *)
(* both graphs hold a literal for the pair and the two literal sets        *)
(* differ; each reported entry carries both complete literal sets.         *)
(* ---------------------------------------------------------------------- *)
LiteralsReturned == mpc = "returned"

LiteralsOf(gr, s, p) == {t[3] : t \in {u \in gr : u[1] = s /\ u[2] = p /\ u[3][1] = "lit"}}

Qualifies(s, p) ==
    /\ p \in args.predicates
    /\ LiteralsOf(g_existing_cmp, s, p) # {}
    /\ LiteralsOf(restored_cmp, s, p) # {}
    /\ LiteralsOf(g_existing_cmp, s, p) # LiteralsOf(restored_cmp, s, p)

Pairs == {<<t[1], t[2]>> : t \in DiffTriples}

QualifyingPairs == {k \in Pairs : Qualifies(k[1], k[2])}

ReportedPairs ==
    {<<report.literal_diffs[i][1], report.literal_diffs[i][2]>> :
        i \in 1..Len(report.literal_diffs)}

CompleteEntries ==
    \A i \in 1..Len(report.literal_diffs) :
        LET d == report.literal_diffs[i]
        IN  /\ Range(d[3]) = LiteralsOf(g_existing_cmp, d[1], d[2])
            /\ Len(d[3]) = Cardinality(Range(d[3]))
            /\ Range(d[4]) = LiteralsOf(restored_cmp, d[1], d[2])
            /\ Len(d[4]) = Cardinality(Range(d[4]))

C18_ReportedIffQualifies ==
    LiteralsReturned => (ReportedPairs = QualifyingPairs /\ CompleteEntries)

(* ---------------------------------------------------------------------- *)
(* C18 amended: a pair is reported only if the predicate is in the         *)
(* configured set, both graphs hold a literal for it and the literal sets  *)
(* differ; every such pair is reported when at most `limit` pairs qualify, *)
(* otherwise the reported pairs are the first ones in (subject, predicate) *)
(* order; no pair is reported twice and each entry carries both complete   *)
(* literal sets.                                                           *)
(* ---------------------------------------------------------------------- *)
C18_ReportedOnlyIfQualifies ==
    LiteralsReturned =>
        /\ ReportedPairs \subseteq QualifyingPairs
        /\ Cardinality(ReportedPairs) = Len(report.literal_diffs)
        /\ Cardinality(QualifyingPairs) <= args.limit => ReportedPairs = QualifyingPairs
        /\ \A q \in QualifyingPairs \ ReportedPairs :
              \A r \in ReportedPairs : ~PairKeyLess(q, r)
        /\ \A i, j \in 1..Len(report.literal_diffs) : i < j =>
              PairKeyLess(<<report.literal_diffs[i][1], report.literal_diffs[i][2]>>,
                          <<report.literal_diffs[j][1], report.literal_diffs[j][2]>>)
        /\ CompleteEntries

\* two pairs qualify, the limit is one, and only the first pair is reported, with
\* two literals on one side
C18_Witness ==
    /\ LiteralsReturned
    /\ args.limit = 1
    /\ Cardinality(QualifyingPairs) = 2
    /\ Len(report.literal_diffs) = 1
    /\ Len(report.literal_diffs[1][3]) = 2

(* ---------------------------------------------------------------------- *)
(* C19: --literal-diff-limit n bounds the literal mismatches printed: for  *)
(* n >= 0 (a negative n counts as 0) find_literal_lexical_differences      *)
(* returns at most n entries, so n = 0 prints no literal mismatch.         *)
(* ---------------------------------------------------------------------- *)
C19_AtMostLimit ==
    mpc = "end" =>
        Len(report.literal_diffs) <=
            (IF args.literal_diff_limit < 0 THEN 0 ELSE args.literal_diff_limit)

(* ---------------------------------------------------------------------- *)
(* C21: in a built graph every concept that is not a procedure is a top    *)
(* concept of the scheme or has an outgoing skos:broader edge, also when   *)
(* its broader cell holds only separators or only labels that do not       *)
(* resolve.                                                                *)
(* ---------------------------------------------------------------------- *)
HasBroaderEdge(id) == \E t \in g : t[1] = URIRef(id) /\ t[2] = SKOS_broader

C21_TopOrBroader ==
    Returned =>
        \A id \in ConceptIds : ~IsProcedure(id) => (IsTopConcept(id) \/ HasBroaderEdge(id))

(* ---------------------------------------------------------------------- *)
(* C22: when the graph is rebuilt from records derived from the reference  *)
(* document with no lossy fields, the verification finds the graphs equal  *)
(* and diff_graphs returns no missing and no extra triple, whatever the    *)
(* --include-* flags.                                                      *)
(* ---------------------------------------------------------------------- *)
DerivedFromReference ==
    /\ reference.exists
    /\ \/ csv.records = SampleRecords /\ reference.graph = SampleReference
       \/ out_file # <<>> /\ reference.graph = out_file[1]

TopConceptsStated(gr) ==
    {t[3] : t \in {u \in gr : u[1] = SCHEME_URI /\ u[2] = SKOS_hasTopConcept}}

C25_OriginalsUnchanged ==
    /\ out_file # <<>> => g = out_file[1]
    /\ (reference.exists /\ mpc \in {"parsed", "filtered", "closed", "compared", "end"}) =>
          g_existing = reference.graph
    /\ Compared =>
          /\ report.same_raw = (out_file[1] = reference.graph)
          /\ report.restored_top = TopConceptsStated(out_file[1])
          /\ report.existing_top = TopConceptsStated(reference.graph)

(* ---------------------------------------------------------------------- *)
(* C23: prefLabel and altLabel literals always carry the tag en; a         *)
(* definition literal carries en exactly when the concept is not a         *)
(* procedure and is untagged exactly when it is; an empty prefLabel,       *)
(* altLabel or definition field emits no triple.                           *)
(* ---------------------------------------------------------------------- *)
\* the objects the graph gives to a concept under a predicate
ObjectsOf(id, p) == {t[3] : t \in {u \in g : u[1] = URIRef(id) /\ u[2] = p}}

RowsOf(id) == {i \in 1..Len(rows) : strip(rows[i].ID) = id}

\* the lexical forms that the non-empty cells of the rows of a concept give
PrefForms(id) == {strip(rows[i].prefLabel) : i \in RowsOf(id)} \ {<<>>}

DefinitionForms(id) == {strip(rows[i].definition) : i \in RowsOf(id)} \ {<<>>}

AltForms(id) == UNION {Range(split_semicolon(rows[i].altLabel)) : i \in RowsOf(id)}

C23_LanguageTags ==
    Returned =>
        \A id \in ConceptIds :
            /\ ObjectsOf(id, SKOS_prefLabel) = {<<"lit", f, "en">> : f \in PrefForms(id)}
            /\ ObjectsOf(id, SKOS_altLabel) = {<<"lit", f, "en">> : f \in AltForms(id)}
            /\ ObjectsOf(id, SKOS_definition) =
                  {<<"lit", f, IF IsProcedure(id) THEN "" ELSE "en">> :
                      f \in DefinitionForms(id)}
            /\ \A f \in AltForms(id) : f # <<>>

\* a procedure with an untagged definition next to a concept with a tagged one and
\* two alternative labels
C23_Witness ==
    /\ Returned
    /\ Len(rows) = 2
    /\ \E id \in ConceptIds :
          /\ IsProcedure(id)
          /\ ObjectsOf(id, SKOS_definition) = {<<"lit", <<"d">>, "">>}
          /\ ObjectsOf(id, SKOS_altLabel) = {}
          /\ \E i \in RowsOf(id) : rows[i].altLabel = <<";">>
    /\ \E id \in ConceptIds :
          /\ ~IsProcedure(id)
          /\ ObjectsOf(id, SKOS_definition) = {<<"lit", <<"d">>, "en">>}
          /\ Cardinality(ObjectsOf(id, SKOS_altLabel)) = 2

(* ---------------------------------------------------------------------- *)
(* C24: a row whose identifier is empty contributes nothing to the build:  *)
(* it emits no triple, is never classified as a procedure, is never a top  *)
(* concept, and its prefLabel is no target of a broader reference (a       *)
(* reference to it is reported as unresolved).                             *)
(* ---------------------------------------------------------------------- *)
EmptyIdRows == {i \in 1..Len(rows) : strip(rows[i].ID) = <<>>}

\* the references to a label that only rows without an identifier bear
ReferencesToEmptyIdRows ==
    SelectSeq(References,
        LAMBDA r : /\ MatchingIds(r.label) = {}
                   /\ \E i \in EmptyIdRows :
                         /\ strip(rows[i].prefLabel) # <<>>
                         /\ casefold(strip(rows[i].prefLabel)) = casefold(r.label))

C24_EmptyIdContributesNothing ==
    Returned =>
        LET without == BuildGraph(ConceptRows(rows))
            dangling == ReferencesToEmptyIdRows
        IN  /\ g = without.g
            /\ warnings = without.warnings
            /\ \A t \in g : t[1] # URIRef(<<>>) /\ t[3] # URIRef(<<>>)
            /\ <<>> \notin procedure_concept_uris
            /\ \A ref \in Range(dangling) :
                  /\ \E k \in 1..Len(warnings.unresolved_broader_labels) :
                        warnings.unresolved_broader_labels[k] = UnresolvedLine(ref.label)
                  /\ \A t \in g : t[1] = URIRef(ref.concept_uri) =>
                        t[2] \notin {SKOS_broader, SHE_isProcedureOf}

\* a row without identifier bears the label S and a procedure exactMatch, and the
\* other row's reference to s is reported as unresolved
C24_Witness ==
    /\ Returned
    /\ Len(rows) = 2
    /\ Cardinality(EmptyIdRows) = 1
    /\ \E i \in EmptyIdRows : rows[i].prefLabel = <<"S">> /\ IsProcedureRow(rows[i])
    /\ Len(ReferencesToEmptyIdRows) = 1
    /\ Len(warnings.unresolved_broader_labels) = 1
    /\ procedure_concept_uris = {}

(* ---------------------------------------------------------------------- *)
(* C27: both ends of every skos:broader, skos:narrower, she:isProcedureOf  *)
(* and she:hasProcedure triple of a built graph are identifiers of input   *)
(* rows, and each carries rdf:type skos:Concept and skos:inScheme of the   *)
(* scheme.                                                                 *)
(* ---------------------------------------------------------------------- *)
EdgePredicates == {SKOS_broader, SKOS_narrower, SHE_isProcedureOf, SHE_hasProcedure}

DeclaredConcept(node) ==
    /\ \E i \in 1..Len(rows) : rows[i].ID # <<>> /\ node = <<"uri", strip(rows[i].ID)>>
    /\ <<node, RDF_type, SKOS_Concept>> \in g
    /\ <<node, SKOS_inScheme, SCHEME_URI>> \in g

C27_EdgeEndsDeclared ==
    Returned =>
        \A t \in g : t[2] \in EdgePredicates =>
            (DeclaredConcept(t[1]) /\ DeclaredConcept(t[3]))

\* a graph with an ownership pair between two rows
C27_Witness ==
    /\ Returned
    /\ \E t \in g : t[2] = SHE_hasProcedure /\ t[1] # t[3]
    /\ \E t \in g : t[2] = SHE_isProcedureOf
    /\ Cardinality(ConceptIds) = 2

(* ---------------------------------------------------------------------- *)
(* C28: no built graph holds both (c, skos:broader, p) and                 *)
(* (c, she:isProcedureOf, p); the subject of every she:isProcedureOf       *)
(* triple is a procedure and its object is not; (p, she:hasProcedure, c)   *)
(* is present if and only if (c, she:isProcedureOf, p) is.                 *)
(* ---------------------------------------------------------------------- *)
C28_EdgeKindsExclusive ==
    Returned =>
        /\ \A t \in g : t[2] = SKOS_broader =>
              <<t[1], SHE_isProcedureOf, t[3]>> \notin g
        /\ \A t \in g : t[2] = SHE_isProcedureOf =>
              /\ t[1][2] \in procedure_concept_uris
              /\ t[3][2] \notin procedure_concept_uris
              /\ <<t[3], SHE_hasProcedure, t[1]>> \in g
        /\ \A t \in g : t[2] = SHE_hasProcedure =>
              <<t[3], SHE_isProcedureOf, t[1]>> \in g

\* a procedure owned by a concept that has a skos:broader edge of its own
C28_Witness ==
    /\ Returned
    /\ \E c \in ConceptIds, p \in ConceptIds :
          /\ Has(c, SHE_isProcedureOf, p)
          /\ Has(p, SHE_hasProcedure, c)
          /\ IsProcedure(c)
          /\ ~IsProcedure(p)
          /\ \E q \in ConceptIds : Has(p, SKOS_broader, q)
          /\ ~Has(c, SKOS_broader, p)

(* ---------------------------------------------------------------------- *)
(* C26: parse_skos_vocabulary_enhanced terminates on every graph that      *)
(* build_graph_from_csv can produce: the descent of get_concept_info over  *)
(* skos:narrower, inverse skos:broader and she:hasProcedure reaches a leaf *)
(* on every path, also when a row lists its own prefLabel or that of a     *)
(* descendant as a broader label.                                          *)
(* ---------------------------------------------------------------------- *)
C26_DescentTerminates ==
    /\ hpc # "RecursionError"
    /\ \A i, j \in 1..Len(call_stack) : i < j => call_stack[i].concept # call_stack[j].concept

(* ---------------------------------------------------------------------- *)
(* C29: link_to_thesaurus adds at most one match triple per local          *)
(* prefLabel triple and thesaurus, exact match first: skos:exactMatch when *)
(* the normalized lower-cased label equals a (lower-cased) thesaurus       *)
(* prefLabel, otherwise skos:closeMatch when it equals a (stripped,        *)
(* lower-cased) thesaurus altLabel, otherwise nothing; no triple is        *)
(* removed; with no known namespace for the thesaurus name, or a missing   *)
(* thesaurus file, the triples are unchanged.                              *)
(* ---------------------------------------------------------------------- *)
LocalPrefLabels == {t \in local_graph : t[2] = SKOS_prefLabel}

LabelKey(t) == normalize_uk_to_us(lower(t[3][2]), uk_us)

PrefLabelRows(k) ==
    {i \in 1..Len(thesaurus.rows) :
        /\ notna(thesaurus.rows[i].prefLabel)
        /\ lower(thesaurus.rows[i].prefLabel.s) = k}

AltLabelRows(k) ==
    {i \in 1..Len(thesaurus.rows) :
        /\ notna(thesaurus.rows[i].altLabels)
        /\ k # <<>>
        /\ \E part \in Range(split(thesaurus.rows[i].altLabels.s, <<>>)) :
               lower(strip(part)) = k}

LastOf(I) == CHOOSE i \in I : \A j \in I : j <= i

\* the match the thesaurus holds for one local prefLabel triple: none or one
MatchFor(t) ==
    IF PrefLabelRows(LabelKey(t)) # {}
    THEN {<<t[1], SKOS_exactMatch,
            URIRef(thesaurus.rows[LastOf(PrefLabelRows(LabelKey(t)))].concept)>>}
    ELSE IF AltLabelRows(LabelKey(t)) # {}
    THEN {<<t[1], SKOS_closeMatch,
            URIRef(thesaurus.rows[LastOf(AltLabelRows(LabelKey(t)))].concept)>>}
    ELSE {}

KnownNamespace == lower(splitext0(basename(thesaurus.path))) \in THESAURUS_NAMESPACES

C29_AtMostOneMatch ==
    [][lpc = "call" /\ lpc' # "call" =>
          /\ local_graph \subseteq local_graph'
          /\ (~KnownNamespace \/ ~thesaurus.exists) => local_graph' = local_graph
          /\ (KnownNamespace /\ thesaurus.exists) =>
                /\ local_graph' \ local_graph \subseteq UNION {MatchFor(t) : t \in LocalPrefLabels}
                /\ \A t \in LocalPrefLabels :
                      /\ MatchFor(t) \subseteq local_graph'
                      /\ Cardinality(MatchFor(t)) <= 1
                /\ Cardinality(local_graph' \ local_graph) <= Cardinality(LocalPrefLabels)
      ]_vars

\* linked: one label found among both the preferred and the alternative labels
\* and linked as exact match only, another found among the alternative labels only
C29_Witness ==
    /\ lpc = "linked"
    /\ \E t \in LocalPrefLabels :
          /\ PrefLabelRows(LabelKey(t)) # {}
          /\ AltLabelRows(LabelKey(t)) # {}
          /\ \A x \in local_graph : x[1] = t[1] => x[2] # SKOS_closeMatch
          /\ \E x \in local_graph : x[1] = t[1] /\ x[2] = SKOS_exactMatch /\ x[3] = URIRef(<<"q">>)
    /\ \E t \in LocalPrefLabels :
          /\ LabelKey(t) # lower(t[3][2])
          /\ \E x \in local_graph : x[1] = t[1] /\ x[2] = SKOS_closeMatch

(* ---------------------------------------------------------------------- *)
(* C30: csv_to_skos_rdf emits (c, skos:related, d) exactly for the related *)
(* terms of row c that equal, case-insensitively, the term of some row d   *)
(* anywhere in the CSV, before or after row c, with the URI fragment the   *)
(* first pass assigned to d; a related term that names no row emits no     *)
(* triple and does not stop the conversion.                                *)
(* ---------------------------------------------------------------------- *)
\* the rows whose term is k, case-insensitively
RowsNamed(k) == {i \in 1..Len(df.rows) : lower(df.rows[i].term) = k}

\* the concept of row i: the fragment of the last row with the same term
ConceptOfRow(i) ==
    BENCHMARKS(FragmentOfRow(df.rows[LastOf(RowsNamed(lower(df.rows[i].term)))]))

RelatedTermsOf(i) ==
    IF df.rows[i].related.na THEN {}
    ELSE {strip(part) : part \in Range(split(df.rows[i].related.s, <<>>))} \ {<<>>}

C30_RelatedExactlyNamedRows ==
    gpc = "serialized" =>
        {t \in glossary_graph : t[2] = SKOS_related}
        = {<<ConceptOfRow(c), SKOS_related, ConceptOfRow(d)>> :
              <<c, d>> \in {p \in (1..Len(df.rows)) \X (1..Len(df.rows)) :
                               \E rt \in RelatedTermsOf(p[1]) :
                                   lower(rt) = lower(df.rows[p[2]].term)}}

\* converted: a row related, in another case, to a row after it, and with a
\* related term that names no row
C30_Witness ==
    /\ gpc = "serialized"
    /\ \E c, d \in 1..Len(df.rows) :
          /\ c < d
          /\ \E rt \in RelatedTermsOf(c) :
                rt # df.rows[d].term /\ lower(rt) = lower(df.rows[d].term)
          /\ \E rt \in RelatedTermsOf(c) : RowsNamed(lower(rt)) = {}
          /\ ConceptOfRow(c) # ConceptOfRow(d)
          /\ <<ConceptOfRow(c), SKOS_related, ConceptOfRow(d)>> \in glossary_graph

====
